---- MODULE Spec2Model ----
(***************************************************************************)
(* Model of the nexus-server state engine: the belief graph (Neo4j), the   *)
(* episodic memory index (Qdrant), the metrics store (InfluxDB), the       *)
(* analysis cache (Redis) and the turn orchestrators                       *)
(* river::dialogue::process_message and                                    *)
(* river::integrated::process_integrated.                                  *)
(*                                                                         *)
(* Every await on an external store or on the oracle is one step of a      *)
(* turn; the outcome of the call (success, failure, the oracle's answer)   *)
(* is chosen by the environment.  A failed call has no effect on the store *)
(* it was sent to.  Uuid::new_v4() is a fresh number of its own kind       *)
(* (belief, message, analysis); Utc::now() is the position of the written  *)
(* record in its store, which is the only way the code compares times.     *)
(***************************************************************************)
EXTENDS Integers, Sequences, FiniteSets, TLC

VARIABLES beliefs, edges, memory, metrics, cache, nextMsg, analysisRuns,
          started, turn, probe, pg, collections

vars == <<beliefs, edges, memory, metrics, cache, nextMsg, analysisRuns,
          started, turn, probe, pg, collections>>

(***************************** bounds **************************************)
\* Number of turns the environment submits in one behaviour, on top of the
\* turns that left the belief graph the behaviour starts from.
MaxTurns == 1
\* Largest count handed to compute_metrics when it is called directly.
MaxCount == 5

(************************** input universes ********************************)
Users == {"u1", "u2"}
Sessions == {"s1"}
Messages == {"m1"}
ClaimTexts == {"flat", "round"}
\* Text the detection oracle may echo: a stored claim verbatim, or a paraphrase.
EchoTexts == ClaimTexts \cup {"paraphrase"}
Slots == {1}
Layers == {"syntactic", "semantic", "discourse", "synthesis"}
NilId == 0
ReplyText == "reply"

(***************************** helpers *************************************)
Reverse(s) == [k \in 1..Len(s) |-> s[Len(s) + 1 - k]]

Take(s, n) == SubSeq(s, 1, IF Len(s) < n THEN Len(s) ELSE n)

\* iter().find(|b| b.claim == c): index of the first belief of s whose claim is
\* literally c, 0 if there is none.
FindClaim(s, c) ==
  LET hits == {k \in 1..Len(s) : s[k].claim = c}
  IN  IF hits = {} THEN 0 ELSE CHOOSE k \in hits : \A j \in hits : k <= j

Ok(v) == [ok |-> TRUE, val |-> v, err |-> "none"]
Err(e) == [ok |-> FALSE, val |-> <<>>, err |-> e]

\* Result::unwrap_or_default on a Result<Vec<_>>.
UnwrapOrDefault(ret) == IF ret.ok THEN ret.val ELSE <<>>

\* .or_else(|_| Ok(Vec::new())) on a Result<Vec<_>>.
OrElseEmpty(ret) == IF ret.ok THEN ret ELSE Ok(<<>>)

(************************ the reasoning oracle *****************************)
\* What one call to the oracle's /api/generate may produce besides a value.
OracleFailures == {[kind |-> "unreachable"], [kind |-> "malformed"]}

Claim(c) == [claim |-> c, confidence |-> 9]
Entry(c) == [existing_claim |-> c, severity |-> 7]

\* The "claims" arrays the extraction oracle answers with.
ExtractValues ==
  {<<>>, <<Claim("flat")>>, <<Claim("round")>>, <<Claim("flat"), Claim("round")>>}

\* The "contradictions" arrays the detection oracle answers with.
DetectValues ==
  {<<>>} \cup {<<Entry(c)>> : c \in EchoTexts} \cup
  {<<Entry("paraphrase"), Entry("flat")>>}

ExtractReplies == OracleFailures \cup {[kind |-> "value", val |-> v] : v \in ExtractValues}
DetectReplies == OracleFailures \cup {[kind |-> "value", val |-> v] : v \in DetectValues}

\* OllamaClient::generate_json: transport errors and unparseable output are Err.
GenerateJson(reply) ==
  IF reply.kind = "value" THEN Ok(reply.val) ELSE Err(reply.kind)

(************************** river::beliefs *********************************)
\* extract_beliefs: generate_json(...).context(...)? then Ok(result.claims).
extract_beliefs(reply) ==
  LET r == GenerateJson(reply)
  IN  IF r.ok THEN Ok(r.val) ELSE Err(r.err)

\* The instant Utc::now() gives the k-th write of a store, as seconds and
\* nanoseconds: strictly increasing, with fractions of every printed width.
InstantOf(k) ==
  CASE k = 1 -> [sec |-> 0, nanos |-> 0]
    [] k = 2 -> [sec |-> 0, nanos |-> 123000000]
    [] k = 3 -> [sec |-> 0, nanos |-> 123000500]
    [] k = 4 -> [sec |-> 0, nanos |-> 123456000]
    [] k = 5 -> [sec |-> 0, nanos |-> 500000000]
    [] OTHER -> [sec |-> k - 5, nanos |-> 0]

\* n written with w decimal digits, as character codes.
Digits(n, w) == [i \in 1..w |-> 48 + ((n \div (10 ^ (w - i))) % 10)]

\* A faulty formatting: the UTC offset is written "Z" (code 90).
to_rfc3339_zulu(k) == LET t == InstantOf(k) IN Digits(t.sec, 2) \o (IF t.nanos = 0 THEN <<>> ELSE IF t.nanos % 1000000 = 0 THEN <<46>> \o Digits(t.nanos \div 1000000, 3) ELSE IF t.nanos % 1000 = 0 THEN <<46>> \o Digits(t.nanos \div 1000, 6) ELSE <<46>> \o Digits(t.nanos, 9)) \o <<90>>

\* DateTime<Utc>::to_rfc3339: fixed-width date and time (of which the model
\* keeps the seconds), then no fraction, or "." (code 46) and 3, 6 or 9 digits,
\* whichever is the shortest exact one, then the offset "+00:00" (of which
\* the model keeps "+", code 43).
to_rfc3339(k) ==
  LET t == InstantOf(k)
      fraction == IF t.nanos = 0 THEN <<>>
                  ELSE IF t.nanos % 1000000 = 0
                    THEN <<46>> \o Digits(t.nanos \div 1000000, 3)
                  ELSE IF t.nanos % 1000 = 0
                    THEN <<46>> \o Digits(t.nanos \div 1000, 6)
                  ELSE <<46>> \o Digits(t.nanos, 9)
  IN  Digits(t.sec, 2) \o fraction \o <<43>>

\* String comparison as the graph store orders strings: code by code, a
\* proper prefix first.
RECURSIVE StrLess(_, _)
StrLess(a, b) ==
  IF a = <<>> THEN b # <<>>
  ELSE IF b = <<>> THEN FALSE
  ELSE IF a[1] # b[1] THEN a[1] < b[1]
  ELSE StrLess(Tail(a), Tail(b))

\* ORDER BY b.created_at on the stored strings, ascending.
RECURSIVE OrderByCreatedAt(_)
OrderByCreatedAt(s) ==
  IF s = <<>> THEN <<>>
  ELSE LET rest == OrderByCreatedAt(Tail(s))
           n == Cardinality({i \in 1..Len(rest) :
                  StrLess(to_rfc3339(rest[i].created_at), to_rfc3339(s[1].created_at))})
       IN  SubSeq(rest, 1, n) \o <<s[1]>> \o SubSeq(rest, n + 1, Len(rest))

\* The rows get_user_beliefs reads: the user's Belief nodes, ORDER BY created_at DESC.
UserBeliefs(bs, user) ==
  LET RECURSIVE Filter(_)
      Filter(k) ==
        IF k > Len(bs) THEN <<>>
        ELSE IF bs[k].user = user THEN <<bs[k]>> \o Filter(k + 1)
        ELSE Filter(k + 1)
  IN  Reverse(OrderByCreatedAt(Filter(1)))

get_user_beliefs(bs, user, dbOk) ==
  IF dbOk THEN Ok(UserBeliefs(bs, user)) ELSE Err("neo4j")

RECURSIVE ResolveEntriesFuzzy(_, _, _, _)
\* A faulty resolution: an entry that matches no stored claim literally is
\* attached to the user's newest belief instead of being dropped.
ResolveEntriesFuzzy(existing, entries, k, new_claim) ==
  IF k > Len(entries) THEN <<>>
  ELSE LET c == entries[k]
           at == FindClaim(existing, c.existing_claim)
           rest == ResolveEntriesFuzzy(existing, entries, k + 1, new_claim)
       IN  <<[belief_a |-> existing[IF at = 0 THEN 1 ELSE at],
              belief_b |-> [id |-> NilId, claim |-> new_claim],
              severity |-> c.severity]>> \o rest

RECURSIVE ResolveEntries(_, _, _, _)
\* The loop of detect_contradictions that resolves the oracle's entries back to
\* stored beliefs by literal equality of the claim text.
ResolveEntries(existing, entries, k, new_claim) ==
  IF k > Len(entries) THEN <<>>
  ELSE LET c == entries[k]
           at == FindClaim(existing, c.existing_claim)
           rest == ResolveEntries(existing, entries, k + 1, new_claim)
       IN  IF at = 0 THEN rest
           ELSE <<[belief_a |-> existing[at],
                   belief_b |-> [id |-> NilId, claim |-> new_claim],
                   severity |-> c.severity]>> \o rest

\* A faulty detect_contradictions: no early return on an empty belief list.
detect_contradictions_always_asks(bs, user, new_claim, dbOk, reply) ==
  LET listed == get_user_beliefs(bs, user, dbOk)
  IN  IF ~listed.ok THEN [ret |-> Err(listed.err), called |-> FALSE]
      ELSE LET r == GenerateJson(reply)
               entries == IF r.ok THEN r.val ELSE <<>>
           IN  [ret |-> Ok(ResolveEntries(listed.val, entries, 1, new_claim)),
                called |-> TRUE]

\* A faulty detect_contradictions: the oracle's error is passed on with `?`.
detect_contradictions_propagating(bs, user, new_claim, dbOk, reply) ==
  LET listed == get_user_beliefs(bs, user, dbOk)
  IN  IF ~listed.ok THEN [ret |-> Err(listed.err), called |-> FALSE]
      ELSE IF listed.val = <<>> THEN [ret |-> Ok(<<>>), called |-> FALSE]
      ELSE LET r == GenerateJson(reply)
           IN  [ret |-> IF r.ok THEN Ok(ResolveEntries(listed.val, r.val, 1, new_claim))
                        ELSE Err(r.err),
                called |-> TRUE]

\* detect_contradictions.  "called" tells whether the oracle was called.
detect_contradictions(bs, user, new_claim, dbOk, reply) ==
  LET listed == get_user_beliefs(bs, user, dbOk)
  IN  IF ~listed.ok THEN [ret |-> Err(listed.err), called |-> FALSE]
      ELSE IF listed.val = <<>> THEN [ret |-> Ok(<<>>), called |-> FALSE]
      ELSE LET r == GenerateJson(reply)
               entries == IF r.ok THEN r.val ELSE <<>>
           IN  [ret |-> Ok(ResolveEntries(listed.val, entries, 1, new_claim)),
                called |-> TRUE]

\* A store_belief that merges: a claim the user already holds is returned, not
\* created again.
store_belief_merging(bs, user, claim, source, dbOk) == IF ~dbOk THEN [ret |-> Err("neo4j"), store |-> bs] ELSE IF \E k \in 1..Len(bs) : bs[k].user = user /\ bs[k].claim = claim.claim THEN [ret |-> Ok(<<bs[CHOOSE k \in 1..Len(bs) : bs[k].user = user /\ bs[k].claim = claim.claim]>>), store |-> bs] ELSE [ret |-> Ok(<<[id |-> Len(bs) + 1, user |-> user, claim |-> claim.claim, confidence |-> claim.confidence, source |-> source, created_at |-> Len(bs) + 1]>>), store |-> Append(bs, [id |-> Len(bs) + 1, user |-> user, claim |-> claim.claim, confidence |-> claim.confidence, source |-> source, created_at |-> Len(bs) + 1])]

\* store_belief: CREATE one Belief node held by the user, with a fresh id.
store_belief(bs, user, claim, source, dbOk) ==
  LET b == [id |-> Len(bs) + 1, user |-> user, claim |-> claim.claim,
            confidence |-> claim.confidence, source |-> source,
            created_at |-> Len(bs) + 1]
  IN  IF dbOk THEN [ret |-> Ok(<<b>>), store |-> Append(bs, b)]
      ELSE [ret |-> Err("neo4j"), store |-> bs]

\* A faulty link_contradiction: the edge is created without matching its ends.
link_contradiction_unmatched(bs, es, a, b, severity, dbOk) ==
  IF dbOk THEN Append(es, [a |-> a, b |-> b, severity |-> severity]) ELSE es

\* link_contradiction: MATCH both Belief nodes, CREATE the edge between them.
link_contradiction(bs, es, a, b, severity, dbOk) ==
  LET ids == {bs[k].id : k \in 1..Len(bs)}
  IN  IF dbOk /\ a \in ids /\ b \in ids
        THEN Append(es, [a |-> a, b |-> b, severity |-> severity])
        ELSE es

(************************** river::episodic ********************************)
\* Similarity of a stored content to the query text, as the index scores it.
Score(query, content) == IF query = content THEN 2 ELSE 1

RECURSIVE ByScore(_, _)
\* The entries of set es as a sequence, best score first (ties: older key first).
ByScore(es, query) ==
  IF es = {} THEN <<>>
  ELSE LET best == CHOOSE e \in es : \A f \in es :
                     \/ Score(query, e.content) > Score(query, f.content)
                     \/ /\ Score(query, e.content) = Score(query, f.content)
                        /\ e.key <= f.key
       IN  <<best>> \o ByScore(es \ {best}, query)

\* A recall_similar that searches without the user_id filter.
recall_similar_unfiltered(mem, user, query, limit, embedOk, dbOk) == IF ~embedOk THEN Err("embed") ELSE IF ~dbOk THEN Err("qdrant") ELSE LET hits == Take(ByScore(mem, query), limit) IN Ok([k \in 1..Len(hits) |-> [content |-> hits[k].content, role |-> hits[k].role, timestamp |-> hits[k].timestamp, score |-> Score(query, hits[k].content)]])

\* recall_similar: embed the query, search with a user_id filter, project.
recall_similar(mem, user, query, limit, embedOk, dbOk) ==
  IF ~embedOk THEN Err("embed")
  ELSE IF ~dbOk THEN Err("qdrant")
  ELSE LET hits == Take(ByScore({e \in mem : e.user = user}, query), limit)
       IN  Ok([k \in 1..Len(hits) |->
                 [content |-> hits[k].content, role |-> hits[k].role,
                  timestamp |-> hits[k].timestamp,
                  score |-> Score(query, hits[k].content)]])

\* store_memory: embed the content, upsert one point keyed by message_id.
store_memory(mem, user, session, message_id, content, role, embedOk, dbOk) ==
  IF embedOk /\ dbOk
    THEN {e \in mem : e.key # message_id} \cup
         {[key |-> message_id, user |-> user, session |-> session,
           content |-> content, role |-> role,
           timestamp |-> Cardinality(mem) + 1]}
    ELSE mem

\* The limit both orchestrators pass to recall_similar.
RecallLimit == 5

COLLECTION_NAME == "episodic_memory"

\* EmbeddingService::dimension
EmbeddingDimension == 768

\* create_collection at the vector store: refused when the name is taken.
create_collection(cols, name, dim, dbOk) ==
  IF dbOk /\ \A c \in cols : c.name # name
    THEN [ret |-> Ok(<<>>), cols |-> cols \cup {[name |-> name, dim |-> dim]}]
    ELSE [ret |-> Err("qdrant"), cols |-> cols]

\* An ensure_collection that creates without looking for the collection.
ensure_collection_always_creates(cols, listOk, createOk) == IF ~listOk THEN [ret |-> Err("qdrant"), cols |-> cols, created |-> FALSE] ELSE [ret |-> create_collection(cols, COLLECTION_NAME, EmbeddingDimension, createOk).ret, cols |-> create_collection(cols, COLLECTION_NAME, EmbeddingDimension, createOk).cols, created |-> TRUE]

\* ensure_collection: list the collections; create the episodic one, with the
\* embedding dimension, only if none has its name.  "created" tells whether
\* a create call was issued.
ensure_collection(cols, listOk, createOk) ==
  IF ~listOk THEN [ret |-> Err("qdrant"), cols |-> cols, created |-> FALSE]
  ELSE IF \E c \in cols : c.name = COLLECTION_NAME
    THEN [ret |-> Ok(<<>>), cols |-> cols, created |-> FALSE]
  ELSE LET made == create_collection(cols, COLLECTION_NAME, EmbeddingDimension, createOk)
       IN  [ret |-> made.ret, cols |-> made.cols, created |-> TRUE]

(************************ river::consciousness *****************************)
RECURSIVE Gcd(_, _)
Gcd(a, b) == IF b = 0 THEN a ELSE Gcd(b, a % b)

\* The f64 quotient n / d of two counts, kept exact as a reduced fraction.
Quot(n, d) == LET g == Gcd(n, d) IN <<n \div g, d \div g>>

\* A faulty clamp: the quotient is kept as it is.
NoClamp(x) == x

\* f64::min(1.0)
MinOne(x) == IF x[1] > x[2] THEN <<1, 1>> ELSE x

\* Faulty formulas: contradiction_awareness divides by beliefs_count instead of
\* beliefs_count - 1.
metric_values_off_by_one(beliefs_count, contradictions_count, questions_asked, beliefs_revised) ==
  [epistemic_humility |->
     IF beliefs_count > 0
       THEN MinOne(Quot(questions_asked + beliefs_revised, beliefs_count))
       ELSE <<1, 2>>,
   belief_volatility |->
     IF beliefs_count > 0 THEN MinOne(Quot(beliefs_revised, beliefs_count))
     ELSE <<0, 1>>,
   contradiction_awareness |->
     IF beliefs_count > 1
       THEN MinOne(Quot(contradictions_count, beliefs_count))
       ELSE <<0, 1>>,
   depth_of_inquiry |-> MinOne(Quot(questions_asked, 10))]

\* The four scalars compute_metrics derives from the counts.
metric_values(beliefs_count, contradictions_count, questions_asked, beliefs_revised) ==
  [epistemic_humility |->
     IF beliefs_count > 0
       THEN MinOne(Quot(questions_asked + beliefs_revised, beliefs_count))
       ELSE <<1, 2>>,
   belief_volatility |->
     IF beliefs_count > 0 THEN MinOne(Quot(beliefs_revised, beliefs_count))
     ELSE <<0, 1>>,
   contradiction_awareness |->
     IF beliefs_count > 1
       THEN MinOne(Quot(contradictions_count, beliefs_count - 1))
       ELSE <<0, 1>>,
   depth_of_inquiry |-> MinOne(Quot(questions_asked, 10))]

\* log_metrics: one point written to the time-series store.
log_metrics(ms, snapshot, dbOk) == IF dbOk THEN Append(ms, snapshot) ELSE ms

\* compute_metrics: build the snapshot, log_metrics(...)?, Ok(metrics).
compute_metrics(ms, user, session, b, c, q, r, dbOk) ==
  LET snapshot == [user |-> user, session |-> session,
                   values |-> metric_values(b, c, q, r),
                   timestamp |-> Len(ms) + 1]
  IN  [ret |-> IF dbOk THEN Ok(<<snapshot>>) ELSE Err("influxdb"),
       store |-> log_metrics(ms, snapshot, dbOk), handed |-> snapshot]

\* The sessions under which snapshots are written, and the orders in which
\* the time-series store may return the tables of a query: one table per
\* series, a series being a measurement, a tag set and a field.
StateSessions == {"s1", "s2"}
TableOrders == {<<"s1", "s2">>, <<"s2", "s1">>}

\* Hours of the trailing window of get_current_state: range(start: -24h).
WindowHours == 24

MetricFields == <<"epistemic_humility", "belief_volatility", "contradiction_awareness", "depth_of_inquiry">>

\* The scalars get_current_state starts from and returns when it has no data.
DefaultState ==
  [epistemic_humility |-> <<1, 2>>, belief_volatility |-> <<0, 1>>,
   contradiction_awareness |-> <<0, 1>>, depth_of_inquiry |-> <<0, 1>>]

\* The user's points within the window, as positions in the store.
InWindow(ms, user, now) ==
  {k \in 1..Len(ms) : ms[k].user = user /\ ms[k].timestamp >= now - WindowHours}

\* last(): of every table, the last record.  The records of one session's
\* four series, in field order, for the sessions in the order given.
RECURSIVE LastRecords(_, _, _, _)
LastRecords(ms, user, now, order) ==
  IF order = <<>> THEN <<>>
  ELSE LET mine == {k \in InWindow(ms, user, now) : ms[k].session = order[1]}
           rest == LastRecords(ms, user, now, Tail(order))
       IN  IF mine = {} THEN rest
           ELSE LET k == CHOOSE x \in mine : \A y \in mine : y <= x
                IN  [i \in 1..Len(MetricFields) |->
                       [field |-> MetricFields[i],
                        value |-> ms[k].values[MetricFields[i]]]] \o rest

\* The loop over the records: each record overwrites the scalar of its field.
RECURSIVE Overwrite(_, _)
Overwrite(acc, records) ==
  IF records = <<>> THEN acc
  ELSE Overwrite([acc EXCEPT ![records[1].field] = records[1].value], Tail(records))

\* get_current_state: query the window with last(), unwrap_or_default on the
\* query's failure, fold the records into the four scalars, defaults if none.
get_current_state(ms, user, now, order, dbOk) ==
  LET raw_results == IF dbOk THEN LastRecords(ms, user, now, order) ELSE <<>>
  IN  IF raw_results # <<>>
        THEN Ok(<<[user |-> user, session |-> NilId,
                   values |-> Overwrite(DefaultState, raw_results)]>>)
        ELSE Ok(<<[user |-> user, session |-> NilId, values |-> DefaultState]>>)

(************************ perspective::engine ******************************)
\* The texts handed to the analysis: "m1c" stands for a text whose 64-bit
\* DefaultHasher value is that of "m1".
AnalysisTexts == {"m1", "m2", "m1c"}

\* DefaultHasher over the text, finish().
Hash(text) == CASE text = "m1" -> 1 [] text = "m2" -> 2 [] text = "m1c" -> 1

\* cache_key: format!("analysis:{hash:x}")
cache_key(text) == <<"analysis", Hash(text)>>

CacheKeys == {cache_key(t) : t \in AnalysisTexts}

CACHE_TTL_SECS == 3600

\* A serialization that loses the layers of the result.
ToJsonLossy(r) == [json |-> "object", id |-> r.id, input_text |-> r.input_text, layers |-> {}]

\* serde_json::to_string(&AnalysisResult): an object with the struct's fields.
ToJson(r) == [json |-> "object", id |-> r.id, input_text |-> r.input_text, layers |-> r.found]

\* Payloads under an analysis key that are not a serialized AnalysisResult.
MalformedPayloads == {[json |-> "garbage"], [json |-> "object", id |-> 0]}

\* serde_json::from_str::<AnalysisResult>: every field must be present.
FromJson(p) ==
  IF p.json = "object" /\ DOMAIN p = {"json", "id", "input_text", "layers"}
    THEN Ok(<<[id |-> p.id, input_text |-> p.input_text, found |-> p.layers]>>)
    ELSE Err("deserialize")

\* Redis with no key set; cache.now is the server's clock in seconds.
EmptyCache == [now |-> 0, keys |-> [k \in CacheKeys |-> <<>>]]

\* GET key ... .unwrap_or(None): the payload of a key that is set and has not
\* expired, None also when the server cannot be reached.
RedisGet(ch, key, redisOk) ==
  IF redisOk /\ ch.keys[key] # <<>> /\ ch.now < ch.keys[key][1].expires
    THEN <<ch.keys[key][1].payload>>
    ELSE <<>>

\* A get_cached that answers a malformed payload with a miss.
get_cached_lenient(ch, text, redisOk) == LET raw == RedisGet(ch, cache_key(text), redisOk) IN IF raw = <<>> THEN Ok(<<>>) ELSE LET parsed == FromJson(raw[1]) IN IF parsed.ok THEN Ok(parsed.val) ELSE Ok(<<>>)

\* get_cached: Ok(None) on no payload, Ok(Some(result)) on a payload that
\* deserializes, the deserialization error otherwise.
get_cached(ch, text, redisOk) ==
  LET raw == RedisGet(ch, cache_key(text), redisOk)
  IN  IF raw = <<>> THEN Ok(<<>>)
      ELSE LET parsed == FromJson(raw[1])
           IN  IF parsed.ok THEN Ok(parsed.val) ELSE Err(parsed.err)

\* A set_cached that reports success without writing.
set_cached_forgetful(ch, text, result, redisOk) == [ret |-> IF redisOk THEN Ok(<<>>) ELSE Err("redis"), cache |-> ch]

\* set_cached: SET key json EX CACHE_TTL_SECS
set_cached(ch, text, result, redisOk) ==
  IF redisOk
    THEN [ret |-> Ok(<<>>),
          cache |-> [ch EXCEPT !.keys[cache_key(text)] =
                       <<[payload |-> ToJson(result),
                          expires |-> ch.now + CACHE_TTL_SECS]>>]]
    ELSE [ret |-> Err("redis"), cache |-> ch]

\* store_analysis: INSERT INTO analyses (id, ...)
store_analysis(pgs, result, pgOk) ==
  IF pgOk THEN [pgs EXCEPT !.analyses = Append(@, result.id)] ELSE pgs

\* A layer that hands its oracle failure to analyze_text.
layer_analyze_propagating(layer, oracleOk) == IF oracleOk THEN Ok(<<[layer |-> layer, derived |-> TRUE]>>) ELSE Err("oracle")

\* One layer's analyze: its oracle call is unwrap_or_else'd to empty lists, so
\* it is Ok whether or not the oracle answered; "derived" tells whether the
\* layer's oracle-derived lists carry the oracle's answer.
layer_analyze(layer, oracleOk) == Ok(<<[layer |-> layer, derived |-> oracleOk]>>)

\* Which of the four oracle calls of one analysis fail, as the environment
\* chooses it for an analysis that runs inside a turn.
TurnLayerFailures == {{}, {"semantic"}, Layers}

\* An analyze_text that caches its result only when no layer degraded.
analyze_text_caching_complete(ch, pgs, runs, text, getOk, failed, setOk, pgOk) == LET got == get_cached(ch, text, getOk) IN IF got.ok /\ got.val # <<>> THEN [ret |-> Ok(got.val), cache |-> ch, pg |-> pgs, runs |-> runs, failed |-> {}, computed |-> FALSE, got |-> got] ELSE [ret |-> Ok(<<[id |-> runs + 1, input_text |-> text, found |-> Layers \ failed]>>), cache |-> IF failed = {} THEN set_cached(ch, text, [id |-> runs + 1, input_text |-> text, found |-> Layers \ failed], setOk).cache ELSE ch, pg |-> store_analysis(pgs, [id |-> runs + 1, input_text |-> text, found |-> Layers \ failed], pgOk), runs |-> runs + 1, failed |-> failed, computed |-> TRUE, got |-> got]

\* analyze_text: a cache hit returns the cached result; otherwise the four
\* layers are try_join!ed, the result is assembled with a fresh id, cached and
\* persisted best-effort, and returned.  "failed" are the layers whose oracle
\* call fails; "computed" tells whether the layers ran.
analyze_text(ch, pgs, runs, text, getOk, failed, setOk, pgOk) ==
  LET got == get_cached(ch, text, getOk)
      layers == [l \in Layers |-> layer_analyze(l, l \notin failed)]
      result == [id |-> runs + 1, input_text |-> text,
                 found |-> {l \in Layers : layers[l].val[1].derived}]
  IN  IF got.ok /\ got.val # <<>>
        THEN [ret |-> Ok(got.val), cache |-> ch, pg |-> pgs, runs |-> runs,
              failed |-> {}, computed |-> FALSE, got |-> got]
      ELSE IF \E l \in Layers : ~layers[l].ok
        THEN [ret |-> Err("layer"), cache |-> ch, pg |-> pgs, runs |-> runs,
              failed |-> failed, computed |-> TRUE, got |-> got]
      ELSE [ret |-> Ok(<<result>>),
            cache |-> set_cached(ch, text, result, setOk).cache,
            pg |-> store_analysis(pgs, result, pgOk),
            runs |-> runs + 1, failed |-> failed, computed |-> TRUE, got |-> got]

(************************** the turn record ********************************)
\* The locals of one call of an orchestrator.  Besides them the record keeps
\* what the call has done so far: trace, the outbound calls of its sequential
\* part in the order they were issued; links, the link_contradiction calls with
\* their arguments and whether an edge was created; asked, the message lists
\* handed to chat; counts, the arguments handed to compute_metrics; error, the
\* type of the error the call returned.
Idle ==
  [pc |-> "idle", mode |-> "none", user |-> "none", session |-> "none",
   msg |-> "none", message_id |-> NilId,
   brA |-> "none", brR |-> "none", brE |-> "none",
   analysis |-> <<>>, layerFailed |-> {},
   recallOk |-> TRUE, memories |-> <<>>,
   extractRet |-> Ok(<<>>), extracted |-> <<>>,
   i |-> 1, contradictions |-> <<>>,
   stored |-> <<>>, existing |-> <<>>,
   chat |-> "none", result |-> "none",
   error |-> "none", trace |-> <<>>, links |-> <<>>, asked |-> <<>>,
   counts |-> <<>>]

\* What earlier turns have left in the persistent stores: each belief graph is
\* built with store_belief and each memory index with store_memory, as the
\* turns that wrote them did; nextMsg is the next unused message id.
Held(bs, user, c, source) == store_belief(bs, user, Claim(c), source, TRUE).store

Said(mem, user, key) == store_memory(mem, user, "s1", key, "m1", "user", TRUE, TRUE)

PriorStores ==
  {[beliefs |-> <<>>, memory |-> {}, nextMsg |-> 1],
   [beliefs |-> Held(<<>>, "u1", "flat", 1), memory |-> Said({}, "u1", 1),
    nextMsg |-> 2],
   [beliefs |-> Held(Held(<<>>, "u1", "flat", 1), "u1", "round", 1),
    memory |-> {}, nextMsg |-> 2],
   [beliefs |-> Held(Held(<<>>, "u1", "flat", 1), "u1", "flat", 2),
    memory |-> {}, nextMsg |-> 3],
   [beliefs |-> Held(Held(<<>>, "u1", "flat", 1), "u2", "flat", 2),
    memory |-> Said(Said({}, "u1", 1), "u2", 2), nextMsg |-> 3]}

\* The state when the server starts serving on the store `prior`.
InitOn(prior, call) ==
  /\ beliefs = prior.beliefs
  /\ edges = <<>>
  /\ memory = prior.memory
  /\ metrics = <<>>
  /\ cache = EmptyCache
  /\ pg = [messages |-> <<>>, analyses |-> <<>>, sessions |-> {}]
  /\ collections = {[name |-> COLLECTION_NAME, dim |-> EmbeddingDimension]}
  /\ nextMsg = prior.nextMsg
  /\ analysisRuns = 0
  /\ started = 0
  /\ turn = [t \in Slots |-> Idle]
  /\ probe = call

Init == \E prior \in PriorStores : InitOn(prior, [kind |-> "none"])

Set(t, r) == turn' = [turn EXCEPT ![t] = r]

(************************ the reply and its errors *************************)
\* The type of the error OllamaClient::chat returns: a reqwest or serde error
\* under anyhow context, to which the orchestrators add context of their own.
ChatErrorType == "reqwest::Error"

\* The type of the error analyze_text returns through try_join!.
AnalysisErrorType == "anyhow::Error"

\* The error types an AppError may wrap.
ErrorTypes ==
  {"NexusError::NotFound", "NexusError::Auth", "NexusError::Validation",
   "NexusError::Llm", "NexusError::Database", ChatErrorType, AnalysisErrorType}

\* AppError::into_response: the status by the NexusError variant the error
\* downcasts to, 500 for every other variant and every other type.
into_response(err) ==
  CASE err = "NexusError::NotFound" -> 404
    [] err = "NexusError::Auth" -> 401
    [] err = "NexusError::Validation" -> 400
    [] err = "NexusError::Llm" -> 503
    [] OTHER -> 500

\* A faulty summary: every belief of the list, without the take(20).
BeliefsContextAll(existing) == [k \in 1..Len(existing) |-> [claim |-> existing[k].claim, confidence |-> existing[k].confidence]]

\* The claims of the first twenty beliefs, with their confidences.
BeliefsContext(existing) ==
  [k \in 1..Len(Take(existing, 20)) |->
     [claim |-> existing[k].claim, confidence |-> existing[k].confidence]]

\* The system prompt of process_message: the guidelines followed by the
\* memory, belief and contradiction contexts.
SystemPrompt(r) ==
  [guidelines |-> "socratic", memory_context |-> r.memories,
   beliefs_context |-> BeliefsContext(r.existing),
   contradiction_context |-> r.contradictions]

\* The system prompt of process_integrated: the analysis insights followed by
\* the memory and contradiction contexts.
IntegratedPrompt(r) ==
  [guidelines |-> "integrated", analysis_insights |-> r.analysis,
   memory_context |-> r.memories, contradiction_context |-> r.contradictions]

\* vec![ChatMessage system, ChatMessage user]
ChatMessages(system_prompt, message) ==
  <<[role |-> "system", content |-> system_prompt],
    [role |-> "user", content |-> message]>>

(******************** river::dialogue::process_message *********************)
\* A request arrives: process_message picks message_id = Uuid::new_v4().
StartConversation(t) ==
  /\ turn[t].pc = "idle"
  /\ started < MaxTurns
  /\ \E u \in Users, s \in Sessions, m \in Messages :
       Set(t, [Idle EXCEPT !.pc = "recall", !.mode = "conversation", !.user = u,
                           !.session = s, !.msg = m, !.message_id = nextMsg])
  /\ nextMsg' = nextMsg + 1
  /\ started' = started + 1
  /\ UNCHANGED <<beliefs, edges, memory, metrics, cache, analysisRuns, probe, pg, collections>>

\* 1. recall_similar(...).await.unwrap_or_default()
Recall(t) ==
  /\ turn[t].pc = "recall"
  /\ \E embedOk \in BOOLEAN, dbOk \in BOOLEAN :
       LET ret == recall_similar(memory, turn[t].user, turn[t].msg, RecallLimit,
                                 embedOk, dbOk)
       IN  Set(t, [turn[t] EXCEPT !.recallOk = ret.ok,
                                  !.memories = UnwrapOrDefault(ret),
                                  !.trace = Append(@, "recall"),
                                  !.pc = "extract"])
  /\ UNCHANGED <<beliefs, edges, memory, metrics, cache, nextMsg, analysisRuns,
                 started, probe, pg, collections>>

\* A faulty step 2: extract_beliefs(...).await? ends the turn on an error.
ExtractPropagating(t) ==
  /\ turn[t].pc = "extract"
  /\ \E reply \in ExtractReplies :
       LET ret == extract_beliefs(reply)
       IN  Set(t, IF ret.ok
                    THEN [turn[t] EXCEPT !.extractRet = [ret EXCEPT !.val = <<>>],
                                         !.extracted = ret.val,
                                         !.trace = Append(@, "extract"),
                                         !.i = 1, !.pc = "detect"]
                    ELSE [turn[t] EXCEPT !.extractRet = ret, !.result = "err",
                                         !.trace = Append(@, "extract"),
                                         !.pc = "returned"])
  /\ UNCHANGED <<beliefs, edges, memory, metrics, cache, nextMsg, analysisRuns,
                 started, probe, pg, collections>>

\* 2. extract_beliefs(...).await.unwrap_or_default()
Extract(t) ==
  /\ turn[t].pc = "extract"
  /\ \E reply \in ExtractReplies :
       LET ret == extract_beliefs(reply)
       IN  Set(t, [turn[t] EXCEPT !.extractRet = [ret EXCEPT !.val = <<>>],
                                  !.extracted = UnwrapOrDefault(ret),
                                  !.trace = Append(@, "extract"),
                                  !.i = 1, !.pc = "detect"])
  /\ UNCHANGED <<beliefs, edges, memory, metrics, cache, nextMsg, analysisRuns,
                 started, probe, pg, collections>>

\* A faulty step 3: one loop that detects and stores claim by claim.
DetectStoring(t) ==
  /\ turn[t].pc = "detect"
  /\ turn[t].mode = "conversation"
  /\ turn[t].i <= Len(turn[t].extracted)
  /\ \E dbOk \in BOOLEAN, reply \in DetectReplies, storeOk \in BOOLEAN :
       LET d == detect_contradictions(beliefs, turn[t].user,
                                      turn[t].extracted[turn[t].i].claim, dbOk, reply)
           s == store_belief(beliefs, turn[t].user, turn[t].extracted[turn[t].i],
                             turn[t].message_id, storeOk)
       IN  /\ beliefs' = s.store
           /\ Set(t, [turn[t] EXCEPT
                        !.contradictions = @ \o UnwrapOrDefault(d.ret),
                        !.stored = @ \o UnwrapOrDefault(s.ret),
                        !.trace = @ \o <<"detect", "store">>,
                        !.i = @ + 1])
  /\ UNCHANGED <<edges, memory, metrics, cache, nextMsg, analysisRuns, started,
                 probe, pg, collections>>

\* 3. for claim in &extracted: detect_contradictions(...).await.unwrap_or_default()
Detect(t) ==
  /\ turn[t].pc = "detect"
  /\ turn[t].mode = "conversation"
  /\ turn[t].i <= Len(turn[t].extracted)
  /\ \E dbOk \in BOOLEAN, reply \in DetectReplies :
       LET d == detect_contradictions(beliefs, turn[t].user,
                                      turn[t].extracted[turn[t].i].claim, dbOk, reply)
       IN  Set(t, [turn[t] EXCEPT
                     !.contradictions = @ \o UnwrapOrDefault(d.ret),
                     !.trace = Append(@, "detect"),
                     !.i = @ + 1])
  /\ UNCHANGED <<beliefs, edges, memory, metrics, cache, nextMsg, analysisRuns,
                 started, probe, pg, collections>>

DetectDone(t) ==
  /\ turn[t].pc = "detect"
  /\ turn[t].mode = "conversation"
  /\ turn[t].i > Len(turn[t].extracted)
  /\ Set(t, [turn[t] EXCEPT !.i = 1, !.pc = "store"])
  /\ UNCHANGED <<beliefs, edges, memory, metrics, cache, nextMsg, analysisRuns,
                 started, probe, pg, collections>>

\* 4. for claim in &extracted: store_belief(...); Ok(b) => stored_beliefs.push(b)
StoreBelief(t) ==
  /\ turn[t].pc = "store"
  /\ turn[t].mode = "conversation"
  /\ turn[t].i <= Len(turn[t].extracted)
  /\ \E dbOk \in BOOLEAN :
       LET s == store_belief(beliefs, turn[t].user, turn[t].extracted[turn[t].i],
                             turn[t].message_id, dbOk)
       IN  /\ beliefs' = s.store
           /\ Set(t, [turn[t] EXCEPT !.stored = @ \o UnwrapOrDefault(s.ret),
                                     !.trace = Append(@, "store"),
                                     !.i = @ + 1])
  /\ UNCHANGED <<edges, memory, metrics, cache, nextMsg, analysisRuns, started, probe, pg, collections>>

StoreDone(t) ==
  /\ turn[t].pc = "store"
  /\ turn[t].mode = "conversation"
  /\ turn[t].i > Len(turn[t].extracted)
  /\ Set(t, [turn[t] EXCEPT !.i = 1, !.pc = "link"])
  /\ UNCHANGED <<beliefs, edges, memory, metrics, cache, nextMsg, analysisRuns,
                 started, probe, pg, collections>>

\* A faulty link loop: a contradiction whose new claim was not stored is linked
\* to the first belief the turn did store.
LinkAnyStored(t) ==
  /\ turn[t].pc = "link"
  /\ turn[t].i <= Len(turn[t].contradictions)
  /\ LET contra == turn[t].contradictions[turn[t].i]
         found == FindClaim(turn[t].stored, contra.belief_b.claim)
         at == IF found = 0 /\ turn[t].stored # <<>> THEN 1 ELSE found
     IN  IF at = 0
           THEN /\ edges' = edges
                /\ Set(t, [turn[t] EXCEPT !.i = @ + 1])
           ELSE \E dbOk \in BOOLEAN :
                  /\ edges' = link_contradiction(beliefs, edges, contra.belief_a.id,
                                                 turn[t].stored[at].id,
                                                 contra.severity, dbOk)
                  /\ Set(t, [turn[t] EXCEPT
                               !.i = @ + 1,
                               !.trace = Append(@, "link"),
                               !.links = Append(@, [a |-> contra.belief_a.id,
                                                    b |-> turn[t].stored[at].id,
                                                    severity |-> contra.severity,
                                                    created |-> edges' # edges])])
  /\ UNCHANGED <<beliefs, memory, metrics, cache, nextMsg, analysisRuns, started, probe, pg, collections>>

\* A faulty link loop: the new belief is looked up by claim among all the
\* beliefs of the user in the graph, not among those this turn stored.
LinkAnyBelief(t) ==
  /\ turn[t].pc = "link"
  /\ turn[t].i <= Len(turn[t].contradictions)
  /\ LET contra == turn[t].contradictions[turn[t].i]
         held == Reverse(UserBeliefs(beliefs, turn[t].user))
         at == FindClaim(held, contra.belief_b.claim)
     IN  IF at = 0
           THEN /\ edges' = edges
                /\ Set(t, [turn[t] EXCEPT !.i = @ + 1])
           ELSE \E dbOk \in BOOLEAN :
                  /\ edges' = link_contradiction(beliefs, edges, contra.belief_a.id,
                                                 held[at].id, contra.severity, dbOk)
                  /\ Set(t, [turn[t] EXCEPT
                               !.i = @ + 1,
                               !.trace = Append(@, "link"),
                               !.links = Append(@, [a |-> contra.belief_a.id,
                                                    b |-> held[at].id,
                                                    severity |-> contra.severity,
                                                    created |-> edges' # edges])])
  /\ UNCHANGED <<beliefs, memory, metrics, cache, nextMsg, analysisRuns, started, probe, pg, collections>>

\* for contra in &all_contradictions: find the stored belief with the new claim's
\* text; if Some(new_b), let _ = link_contradiction(a.id, new_b.id, ...).
Link(t) ==
  /\ turn[t].pc = "link"
  /\ turn[t].i <= Len(turn[t].contradictions)
  /\ LET contra == turn[t].contradictions[turn[t].i]
         at == FindClaim(turn[t].stored, contra.belief_b.claim)
     IN  IF at = 0
           THEN /\ edges' = edges
                /\ Set(t, [turn[t] EXCEPT !.i = @ + 1])
           ELSE \E dbOk \in BOOLEAN :
                  /\ edges' = link_contradiction(beliefs, edges, contra.belief_a.id,
                                                 turn[t].stored[at].id,
                                                 contra.severity, dbOk)
                  /\ Set(t, [turn[t] EXCEPT
                               !.i = @ + 1,
                               !.trace = Append(@, "link"),
                               !.links = Append(@, [a |-> contra.belief_a.id,
                                                    b |-> turn[t].stored[at].id,
                                                    severity |-> contra.severity,
                                                    created |-> edges' # edges])])
  /\ UNCHANGED <<beliefs, memory, metrics, cache, nextMsg, analysisRuns, started, probe, pg, collections>>

LinkDone(t) ==
  /\ turn[t].pc = "link"
  /\ turn[t].i > Len(turn[t].contradictions)
  /\ Set(t, [turn[t] EXCEPT !.i = 1, !.pc = "memUser"])
  /\ UNCHANGED <<beliefs, edges, memory, metrics, cache, nextMsg, analysisRuns,
                 started, probe, pg, collections>>

\* 5. let _ = store_memory(..., message_id, message, "user")
MemUser(t) ==
  /\ turn[t].pc = "memUser"
  /\ turn[t].mode = "conversation"
  /\ \E embedOk \in BOOLEAN, dbOk \in BOOLEAN :
       memory' = store_memory(memory, turn[t].user, turn[t].session,
                              turn[t].message_id, turn[t].msg, "user", embedOk, dbOk)
  /\ Set(t, [turn[t] EXCEPT !.trace = Append(@, "memUser"), !.pc = "listCtx"])
  /\ UNCHANGED <<beliefs, edges, metrics, cache, nextMsg, analysisRuns, started, probe, pg, collections>>

\* 6. existing_beliefs = get_user_beliefs(...).await.unwrap_or_default()
ListCtx(t) ==
  /\ turn[t].pc = "listCtx"
  /\ \E dbOk \in BOOLEAN :
       Set(t, [turn[t] EXCEPT
                 !.existing = UnwrapOrDefault(get_user_beliefs(beliefs, turn[t].user, dbOk)),
                 !.trace = Append(@, "list"),
                 !.pc = "chat"])
  /\ UNCHANGED <<beliefs, edges, memory, metrics, cache, nextMsg, analysisRuns,
                 started, probe, pg, collections>>

\* A faulty step 7: a failed chat call is issued once more before giving up.
ChatRetrying(t) ==
  /\ turn[t].pc = "chat"
  /\ turn[t].mode = "conversation"
  /\ \E first \in BOOLEAN, second \in BOOLEAN :
       LET messages == ChatMessages(SystemPrompt(turn[t]), turn[t].msg)
           chatOk == first \/ second
       IN  Set(t, [turn[t] EXCEPT
                     !.chat = IF chatOk THEN "ok" ELSE "err",
                     !.result = IF chatOk THEN "none" ELSE "err",
                     !.error = IF chatOk THEN "none" ELSE ChatErrorType,
                     !.trace = IF first THEN Append(@, "chat") ELSE @ \o <<"chat", "chat">>,
                     !.asked = IF first THEN Append(@, messages)
                               ELSE @ \o <<messages, messages>>,
                     !.pc = IF chatOk THEN "memReply" ELSE "returned"])
  /\ UNCHANGED <<beliefs, edges, memory, metrics, cache, nextMsg, analysisRuns,
                 started, probe, pg, collections>>

\* A faulty step 7: a failed chat undoes the belief writes of the turn.
ChatRollingBack(t) ==
  /\ turn[t].pc = "chat"
  /\ turn[t].mode = "conversation"
  /\ \E chatOk \in BOOLEAN :
       /\ Set(t, [turn[t] EXCEPT
                    !.chat = IF chatOk THEN "ok" ELSE "err",
                    !.result = IF chatOk THEN "none" ELSE "err",
                    !.error = IF chatOk THEN "none" ELSE ChatErrorType,
                    !.trace = Append(@, "chat"),
                    !.asked = Append(@, ChatMessages(SystemPrompt(turn[t]), turn[t].msg)),
                    !.pc = IF chatOk THEN "memReply" ELSE "returned"])
       /\ beliefs' = IF chatOk THEN beliefs
                     ELSE SubSeq(beliefs, 1, Len(beliefs) - Len(turn[t].stored))
  /\ UNCHANGED <<edges, memory, metrics, cache, nextMsg, analysisRuns,
                 started, probe, pg, collections>>

\* 7. state.ollama.chat(&messages).await.context(...)?
Chat(t) ==
  /\ turn[t].pc = "chat"
  /\ turn[t].mode = "conversation"
  /\ \E chatOk \in BOOLEAN :
       Set(t, [turn[t] EXCEPT
                 !.chat = IF chatOk THEN "ok" ELSE "err",
                 !.result = IF chatOk THEN "none" ELSE "err",
                 !.error = IF chatOk THEN "none" ELSE ChatErrorType,
                 !.trace = Append(@, "chat"),
                 !.asked = Append(@, ChatMessages(SystemPrompt(turn[t]), turn[t].msg)),
                 !.pc = IF chatOk THEN "memReply" ELSE "returned"])
  /\ UNCHANGED <<beliefs, edges, memory, metrics, cache, nextMsg, analysisRuns,
                 started, probe, pg, collections>>

\* A faulty reply write: the reply is stored under the turn's message_id.
MemReplySameKey(t) ==
  /\ turn[t].pc = "memReply"
  /\ turn[t].mode = "conversation"
  /\ \E embedOk \in BOOLEAN, dbOk \in BOOLEAN :
       memory' = store_memory(memory, turn[t].user, turn[t].session,
                              turn[t].message_id, ReplyText, "assistant", embedOk, dbOk)
  /\ Set(t, [turn[t] EXCEPT !.trace = Append(@, "memReply"), !.pc = "metrics"])
  /\ UNCHANGED <<beliefs, edges, metrics, cache, nextMsg, analysisRuns, started, probe, pg, collections>>

\* let _ = store_memory(..., response_id = Uuid::new_v4(), &response, "assistant")
MemReply(t) ==
  /\ turn[t].pc = "memReply"
  /\ turn[t].mode = "conversation"
  /\ \E embedOk \in BOOLEAN, dbOk \in BOOLEAN :
       memory' = store_memory(memory, turn[t].user, turn[t].session, nextMsg,
                              ReplyText, "assistant", embedOk, dbOk)
  /\ nextMsg' = IF memory' # memory THEN nextMsg + 1 ELSE nextMsg
  /\ Set(t, [turn[t] EXCEPT !.trace = Append(@, "memReply"), !.pc = "metrics"])
  /\ UNCHANGED <<beliefs, edges, metrics, cache, analysisRuns, started, probe, pg, collections>>

\* A faulty step 8: compute_metrics(...).await? ends the turn on a logging error.
MetricsPropagating(t) ==
  /\ turn[t].pc = "metrics"
  /\ turn[t].mode = "conversation"
  /\ \E dbOk \in BOOLEAN :
       LET m == compute_metrics(metrics, turn[t].user, turn[t].session,
                                Len(turn[t].existing) + Len(turn[t].stored),
                                Len(turn[t].contradictions), 1, 0, dbOk)
       IN  /\ metrics' = m.store
           /\ Set(t, [turn[t] EXCEPT !.result = IF m.ret.ok THEN "ok" ELSE "err",
                                     !.trace = Append(@, "metrics"),
                                     !.counts = <<Len(turn[t].existing) + Len(turn[t].stored), Len(turn[t].contradictions), 1, 0>>,
                                     !.pc = "returned"])
  /\ UNCHANGED <<beliefs, edges, memory, cache, nextMsg, analysisRuns, started, probe, pg, collections>>

\* 8. let _ = compute_metrics(existing.len() + stored.len(), contradictions.len(), 1, 0)
\* and Ok(response).
Metrics(t) ==
  /\ turn[t].pc = "metrics"
  /\ turn[t].mode = "conversation"
  /\ \E dbOk \in BOOLEAN :
       metrics' = compute_metrics(metrics, turn[t].user, turn[t].session,
                                  Len(turn[t].existing) + Len(turn[t].stored),
                                  Len(turn[t].contradictions), 1, 0, dbOk).store
  /\ Set(t, [turn[t] EXCEPT
                !.result = "ok",
                !.trace = Append(@, "metrics"),
                !.counts = <<Len(turn[t].existing) + Len(turn[t].stored),
                             Len(turn[t].contradictions), 1, 0>>,
                !.pc = "returned"])
  /\ UNCHANGED <<beliefs, edges, memory, cache, nextMsg, analysisRuns, started, probe, pg, collections>>

(****************** river::integrated::process_integrated ******************)
\* A request arrives: message_id = Uuid::new_v4(); the three futures of the
\* try_join! are created and none has been polled to completion.
StartIntegrated(t) ==
  /\ turn[t].pc = "idle"
  /\ started < MaxTurns
  /\ \E u \in Users, s \in Sessions, m \in Messages :
       Set(t, [Idle EXCEPT !.pc = "join", !.mode = "integrated", !.user = u,
                           !.session = s, !.msg = m, !.message_id = nextMsg,
                           !.brA = "pending", !.brR = "pending", !.brE = "pending"])
  /\ nextMsg' = nextMsg + 1
  /\ started' = started + 1
  /\ UNCHANGED <<beliefs, edges, memory, metrics, cache, analysisRuns, probe, pg, collections>>

\* Branch 1 of the try_join!: crate::perspective::analyze_text(state, message).
IAnalysis(t) ==
  /\ turn[t].pc = "join"
  /\ turn[t].brA = "pending"
  /\ \E getOk \in BOOLEAN, failed \in TurnLayerFailures, setOk \in BOOLEAN,
        pgOk \in BOOLEAN :
       LET a == analyze_text(cache, pg, analysisRuns, turn[t].msg, getOk, failed,
                             setOk, pgOk)
       IN  /\ cache' = a.cache
           /\ pg' = a.pg
           /\ analysisRuns' = a.runs
           /\ Set(t, [turn[t] EXCEPT !.brA = IF a.ret.ok THEN "ok" ELSE "err",
                                     !.analysis = a.ret.val,
                                     !.layerFailed = a.failed])
  /\ UNCHANGED <<beliefs, edges, memory, metrics, nextMsg, started, probe, collections>>

\* A faulty branch 2: recall_similar(...) joined without its or_else.
IRecallFailFast(t) ==
  /\ turn[t].pc = "join"
  /\ turn[t].brR = "pending"
  /\ \E embedOk \in BOOLEAN, dbOk \in BOOLEAN :
       LET raw == recall_similar(memory, turn[t].user, turn[t].msg, RecallLimit,
                                 embedOk, dbOk)
       IN  Set(t, [turn[t] EXCEPT !.recallOk = raw.ok,
                                  !.memories = raw.val,
                                  !.brR = IF raw.ok THEN "ok" ELSE "err"])
  /\ UNCHANGED <<beliefs, edges, memory, metrics, cache, nextMsg, analysisRuns,
                 started, probe, pg, collections>>

\* Branch 2: recall_similar(...).await.or_else(|_| Ok(Vec::new()))
IRecall(t) ==
  /\ turn[t].pc = "join"
  /\ turn[t].brR = "pending"
  /\ \E embedOk \in BOOLEAN, dbOk \in BOOLEAN :
       LET raw == recall_similar(memory, turn[t].user, turn[t].msg, RecallLimit,
                                 embedOk, dbOk)
           ret == OrElseEmpty(raw)
       IN  Set(t, [turn[t] EXCEPT !.recallOk = raw.ok,
                                  !.memories = ret.val,
                                  !.brR = IF ret.ok THEN "ok" ELSE "err"])
  /\ UNCHANGED <<beliefs, edges, memory, metrics, cache, nextMsg, analysisRuns,
                 started, probe, pg, collections>>
\* Branch 3: extract_beliefs(...).await.or_else(|_| Ok(Vec::new()))
IExtract(t) ==
  /\ turn[t].pc = "join"
  /\ turn[t].brE = "pending"
  /\ \E reply \in ExtractReplies :
       LET raw == extract_beliefs(reply)
           ret == OrElseEmpty(raw)
       IN  Set(t, [turn[t] EXCEPT !.extractRet = [raw EXCEPT !.val = <<>>],
                                  !.extracted = ret.val,
                                  !.brE = IF ret.ok THEN "ok" ELSE "err"])
  /\ UNCHANGED <<beliefs, edges, memory, metrics, cache, nextMsg, analysisRuns,
                 started, probe, pg, collections>>
\* tokio::try_join!(...)?: the first branch to finish with Err ends the join
\* at once and the turn with it; otherwise the join ends when all three are Ok.
IJoin(t) ==
  /\ turn[t].pc = "join"
  /\ LET states == {turn[t].brA, turn[t].brR, turn[t].brE}
     IN  /\ "err" \in states \/ states = {"ok"}
         /\ Set(t, IF "err" \in states
                     THEN [turn[t] EXCEPT !.result = "err", !.error = AnalysisErrorType,
                                          !.pc = "returned"]
                     ELSE [turn[t] EXCEPT !.i = 1, !.pc = "detect"])
  /\ UNCHANGED <<beliefs, edges, memory, metrics, cache, nextMsg, analysisRuns,
                 started, probe, pg, collections>>
\* 2. for claim in &extracted: if let Ok(contras) = detect_contradictions(...)
IDetect(t) ==
  /\ turn[t].pc = "detect"
  /\ turn[t].mode = "integrated"
  /\ turn[t].i <= Len(turn[t].extracted)
  /\ \E dbOk \in BOOLEAN, reply \in DetectReplies :
       LET d == detect_contradictions(beliefs, turn[t].user,
                                      turn[t].extracted[turn[t].i].claim, dbOk, reply)
       IN  Set(t, [turn[t] EXCEPT
                     !.contradictions = @ \o (IF d.ret.ok THEN d.ret.val ELSE <<>>),
                     !.trace = Append(@, "detect"),
                     !.i = @ + 1])
  /\ UNCHANGED <<beliefs, edges, memory, metrics, cache, nextMsg, analysisRuns,
                 started, probe, pg, collections>>
IDetectDone(t) ==
  /\ turn[t].pc = "detect"
  /\ turn[t].mode = "integrated"
  /\ turn[t].i > Len(turn[t].extracted)
  /\ Set(t, [turn[t] EXCEPT !.i = 1, !.pc = "store"])
  /\ UNCHANGED <<beliefs, edges, memory, metrics, cache, nextMsg, analysisRuns,
                 started, probe, pg, collections>>
\* 3. for claim in &extracted: let _ = store_belief(...)
IStore(t) ==
  /\ turn[t].pc = "store"
  /\ turn[t].mode = "integrated"
  /\ turn[t].i <= Len(turn[t].extracted)
  /\ \E dbOk \in BOOLEAN :
       beliefs' = store_belief(beliefs, turn[t].user, turn[t].extracted[turn[t].i],
                               turn[t].message_id, dbOk).store
  /\ Set(t, [turn[t] EXCEPT !.trace = Append(@, "store"), !.i = @ + 1])
  /\ UNCHANGED <<edges, memory, metrics, cache, nextMsg, analysisRuns, started, probe, pg, collections>>

\* A faulty end of the store loop: the first detected contradiction is linked
\* to the belief the turn has just stored, as process_message does.
IStoreDoneLinking(t) ==
  /\ turn[t].pc = "store"
  /\ turn[t].mode = "integrated"
  /\ turn[t].i > Len(turn[t].extracted)
  /\ LET held == UserBeliefs(beliefs, turn[t].user)
         cs == turn[t].contradictions
     IN  edges' = IF cs # <<>> /\ held # <<>> /\ held[1].source = turn[t].message_id
                    THEN link_contradiction(beliefs, edges, cs[1].belief_a.id,
                                            held[1].id, cs[1].severity, TRUE)
                    ELSE edges
  /\ Set(t, [turn[t] EXCEPT !.i = 1, !.pc = "memUser"])
  /\ UNCHANGED <<beliefs, memory, metrics, cache, nextMsg, analysisRuns,
                 started, probe, pg, collections>>

IStoreDone(t) ==
  /\ turn[t].pc = "store"
  /\ turn[t].mode = "integrated"
  /\ turn[t].i > Len(turn[t].extracted)
  /\ Set(t, [turn[t] EXCEPT !.i = 1, !.pc = "memUser"])
  /\ UNCHANGED <<beliefs, edges, memory, metrics, cache, nextMsg, analysisRuns,
                 started, probe, pg, collections>>
\* 4. let _ = store_memory(..., message_id, message, "user")
IMemUser(t) ==
  /\ turn[t].pc = "memUser"
  /\ turn[t].mode = "integrated"
  /\ \E embedOk \in BOOLEAN, dbOk \in BOOLEAN :
       memory' = store_memory(memory, turn[t].user, turn[t].session,
                              turn[t].message_id, turn[t].msg, "user", embedOk, dbOk)
  /\ Set(t, [turn[t] EXCEPT !.trace = Append(@, "memUser"), !.pc = "chat"])
  /\ UNCHANGED <<beliefs, edges, metrics, cache, nextMsg, analysisRuns, started, probe, pg, collections>>

\* 6. state.ollama.chat(&messages).await.context(...)?
IChat(t) ==
  /\ turn[t].pc = "chat"
  /\ turn[t].mode = "integrated"
  /\ \E chatOk \in BOOLEAN :
       Set(t, [turn[t] EXCEPT
                 !.chat = IF chatOk THEN "ok" ELSE "err",
                 !.result = IF chatOk THEN "none" ELSE "err",
                 !.error = IF chatOk THEN "none" ELSE ChatErrorType,
                 !.trace = Append(@, "chat"),
                 !.asked = Append(@, ChatMessages(IntegratedPrompt(turn[t]), turn[t].msg)),
                 !.pc = IF chatOk THEN "memReply" ELSE "returned"])
  /\ UNCHANGED <<beliefs, edges, memory, metrics, cache, nextMsg, analysisRuns,
                 started, probe, pg, collections>>
\* 7. let _ = store_memory(..., Uuid::new_v4(), &response, "assistant")
IMemReply(t) ==
  /\ turn[t].pc = "memReply"
  /\ turn[t].mode = "integrated"
  /\ \E embedOk \in BOOLEAN, dbOk \in BOOLEAN :
       memory' = store_memory(memory, turn[t].user, turn[t].session, nextMsg,
                              ReplyText, "assistant", embedOk, dbOk)
  /\ nextMsg' = IF memory' # memory THEN nextMsg + 1 ELSE nextMsg
  /\ Set(t, [turn[t] EXCEPT !.trace = Append(@, "memReply"), !.pc = "listMetrics"])
  /\ UNCHANGED <<beliefs, edges, metrics, cache, analysisRuns, started, probe, pg, collections>>

\* 8. existing = get_user_beliefs(...).await.unwrap_or_default()
IList(t) ==
  /\ turn[t].pc = "listMetrics"
  /\ \E dbOk \in BOOLEAN :
       Set(t, [turn[t] EXCEPT
                 !.existing = UnwrapOrDefault(get_user_beliefs(beliefs, turn[t].user, dbOk)),
                 !.trace = Append(@, "list"),
                 !.pc = "metrics"])
  /\ UNCHANGED <<beliefs, edges, memory, metrics, cache, nextMsg, analysisRuns,
                 started, probe, pg, collections>>
\* A faulty metrics step: the detected contradictions are passed as revisions.
IMetricsCountingRevisions(t) ==
  /\ turn[t].pc = "metrics"
  /\ turn[t].mode = "integrated"
  /\ \E dbOk \in BOOLEAN :
       metrics' = compute_metrics(metrics, turn[t].user, turn[t].session,
                                  Len(turn[t].existing), Len(turn[t].contradictions),
                                  1, Len(turn[t].contradictions), dbOk).store
  /\ Set(t, [turn[t] EXCEPT
                !.result = "ok",
                !.trace = Append(@, "metrics"),
                !.counts = <<Len(turn[t].existing), Len(turn[t].contradictions), 1,
                             Len(turn[t].contradictions)>>,
                !.pc = "returned"])
  /\ UNCHANGED <<beliefs, edges, memory, cache, nextMsg, analysisRuns, started, probe, pg, collections>>

\* let _ = compute_metrics(existing.len(), contradictions.len(), 1, 0) and Ok(..).
IMetrics(t) ==
  /\ turn[t].pc = "metrics"
  /\ turn[t].mode = "integrated"
  /\ \E dbOk \in BOOLEAN :
       metrics' = compute_metrics(metrics, turn[t].user, turn[t].session,
                                  Len(turn[t].existing),
                                  Len(turn[t].contradictions), 1, 0, dbOk).store
  /\ Set(t, [turn[t] EXCEPT
                !.result = "ok",
                !.trace = Append(@, "metrics"),
                !.counts = <<Len(turn[t].existing), Len(turn[t].contradictions), 1, 0>>,
                !.pc = "returned"])
  /\ UNCHANGED <<beliefs, edges, memory, cache, nextMsg, analysisRuns, started, probe, pg, collections>>

\* The caller takes the result; the slot is free for the next request.
Finish(t) ==
  /\ turn[t].pc = "returned"
  /\ Set(t, Idle)
  /\ UNCHANGED <<beliefs, edges, memory, metrics, cache, nextMsg, analysisRuns,
                 started, probe, pg, collections>>

TurnStep ==
  \E t \in Slots :
    \/ StartConversation(t)
    \/ Recall(t)
    \/ Extract(t)
    \/ Detect(t)
    \/ DetectDone(t)
    \/ StoreBelief(t)
    \/ StoreDone(t)
    \/ Link(t)
    \/ LinkDone(t)
    \/ MemUser(t)
    \/ ListCtx(t)
    \/ Chat(t)
    \/ MemReply(t)
    \/ Metrics(t)
    \/ StartIntegrated(t)
    \/ IAnalysis(t)
    \/ IRecall(t)
    \/ IExtract(t)
    \/ IJoin(t)
    \/ IDetect(t)
    \/ IDetectDone(t)
    \/ IStore(t)
    \/ IStoreDone(t)
    \/ IMemUser(t)
    \/ IChat(t)
    \/ IMemReply(t)
    \/ IList(t)
    \/ IMetrics(t)
    \/ Finish(t)

(************************* calls outside a turn *****************************)
\* One call of link_contradiction between turns with an endpoint that is not
\* the id of a stored belief; probe records whether an edge was created.
LinkCall ==
  /\ probe.kind = "none"
  /\ \A t \in Slots : turn[t].pc = "idle"
  /\ \E a \in 0..(Len(beliefs) + 1), b \in 0..(Len(beliefs) + 1), dbOk \in BOOLEAN :
       /\ a \notin 1..Len(beliefs) \/ b \notin 1..Len(beliefs)
       /\ edges' = link_contradiction(beliefs, edges, a, b, 7, dbOk)
       /\ probe' = [kind |-> "link", created |-> edges' # edges]
  /\ UNCHANGED <<beliefs, memory, metrics, cache, nextMsg, analysisRuns, started, turn, pg, collections>>

Next == TurnStep \/ LinkCall

Spec == Init /\ [][Next]_vars

\* detect_contradictions called on its own: the stored graph, the user, the new
\* claim, the graph's availability and the oracle's answer are the inputs.
InitDetect ==
  \E prior \in PriorStores, u \in Users, c \in ClaimTexts, dbOk \in BOOLEAN,
     reply \in DetectReplies :
    InitOn(prior, [kind |-> "detectCall", user |-> u, new_claim |-> c,
                   dbOk |-> dbOk, reply |-> reply])

DetectCall ==
  /\ probe.kind = "detectCall"
  /\ LET d == detect_contradictions(beliefs, probe.user, probe.new_claim,
                                    probe.dbOk, probe.reply)
     IN  probe' = [kind |-> "detectRet", user |-> probe.user,
                   new_claim |-> probe.new_claim, dbOk |-> probe.dbOk,
                   reply |-> probe.reply, ret |-> d.ret, called |-> d.called]
  /\ UNCHANGED <<beliefs, edges, memory, metrics, cache, nextMsg, analysisRuns,
                 started, turn, pg, collections>>

NextDetect == DetectCall

SpecDetect == InitDetect /\ [][NextDetect]_vars

(*********************** the belief graph on its own ************************)
\* No call has been made yet.
NoOp == [op |-> "none"]

\* Beliefs in the graph during a behaviour of direct calls.
MaxBeliefs == 4

\* Confidences of the claims stored directly, in tenths.
Confidences == {3, 9}

\* store_belief and get_user_beliefs called on their own on a persisted graph.
InitBeliefs ==
  \E prior \in PriorStores : InitOn(prior, [kind |-> "beliefs", last |-> NoOp])

StoreCall ==
  /\ probe.kind = "beliefs"
  /\ Len(beliefs) < MaxBeliefs
  /\ \E user \in Users, c \in ClaimTexts, confidence \in Confidences, dbOk \in BOOLEAN :
       LET claim == [claim |-> c, confidence |-> confidence]
           w == store_belief(beliefs, user, claim, "m1", dbOk)
       IN  /\ beliefs' = w.store
           /\ probe' = [kind |-> "beliefs",
                        last |-> [op |-> "store", user |-> user, claim |-> claim,
                                  ret |-> w.ret]]
  /\ UNCHANGED <<edges, memory, metrics, cache, nextMsg, analysisRuns, started,
                 turn, pg, collections>>

\* beliefs_handler: get_user_beliefs called for a user.
ListCall ==
  /\ probe.kind = "beliefs"
  /\ \E user \in Users, dbOk \in BOOLEAN :
       probe' = [kind |-> "beliefs",
                 last |-> [op |-> "list", user |-> user,
                           ret |-> get_user_beliefs(beliefs, user, dbOk)]]
  /\ UNCHANGED <<beliefs, edges, memory, metrics, cache, nextMsg, analysisRuns,
                 started, turn, pg, collections>>

NextBeliefs == StoreCall \/ ListCall

SpecBeliefs == InitBeliefs /\ [][NextBeliefs]_vars

(********************** the memory index on its own *************************)
\* Memories in the index during a behaviour of direct calls.
MaxMemories == 4

\* Contents stored and queried, and the limits recall is called with.
MemoryTexts == {"m1", "m2"}
Limits == {1, 2, RecallLimit}

InitRecall ==
  \E prior \in PriorStores : InitOn(prior, [kind |-> "recall", last |-> NoOp])

\* store_memory called for a new message of a user.
RememberCall ==
  /\ probe.kind = "recall"
  /\ Cardinality(memory) < MaxMemories
  /\ \E user \in Users, content \in MemoryTexts, embedOk \in BOOLEAN, dbOk \in BOOLEAN :
       memory' = store_memory(memory, user, "s1", Cardinality(memory) + 1, content,
                              "user", embedOk, dbOk)
  /\ probe' = [kind |-> "recall", last |-> [op |-> "remember"]]
  /\ UNCHANGED <<beliefs, edges, metrics, cache, nextMsg, analysisRuns, started,
                 turn, pg, collections>>

\* recall_similar called as process_message calls it: the result, and the
\* memories the orchestrator goes on with (unwrap_or_default).
RecallCall ==
  /\ probe.kind = "recall"
  /\ \E user \in Users, query \in MemoryTexts, limit \in Limits,
        embedOk \in BOOLEAN, dbOk \in BOOLEAN :
       LET ret == recall_similar(memory, user, query, limit, embedOk, dbOk)
       IN  probe' = [kind |-> "recall",
                     last |-> [op |-> "recall", user |-> user, query |-> query,
                               limit |-> limit, ret |-> ret,
                               memories |-> UnwrapOrDefault(ret)]]
  /\ UNCHANGED <<beliefs, edges, memory, metrics, cache, nextMsg, analysisRuns,
                 started, turn, pg, collections>>

NextRecall == RememberCall \/ RecallCall

SpecRecall == InitRecall /\ [][NextRecall]_vars

(******************** the memory collection at startup **********************)
\* Calls of ensure_collection in one behaviour.
MaxEnsureCalls == 3

\* What the vector store may hold when the server first starts: nothing, a
\* collection of another application, the episodic collection.
PriorCollections ==
  {{}, {[name |-> "other", dim |-> 384]},
   {[name |-> COLLECTION_NAME, dim |-> EmbeddingDimension]},
   {[name |-> "other", dim |-> 384], [name |-> COLLECTION_NAME, dim |-> EmbeddingDimension]}}

InitEnsure ==
  /\ \E cols \in PriorCollections : collections = cols
  /\ beliefs = <<>> /\ edges = <<>> /\ memory = {} /\ metrics = <<>>
  /\ cache = EmptyCache
  /\ pg = [messages |-> <<>>, analyses |-> <<>>, sessions |-> {}]
  /\ nextMsg = 1 /\ analysisRuns = 0 /\ started = 0
  /\ turn = [t \in Slots |-> Idle]
  /\ probe = [kind |-> "ensure", calls |-> <<>>]

\* main: ensure_collection called when the server starts.
EnsureCall ==
  /\ probe.kind = "ensure"
  /\ Len(probe.calls) < MaxEnsureCalls
  /\ \E listOk \in BOOLEAN, createOk \in BOOLEAN :
       LET r == ensure_collection(collections, listOk, createOk)
       IN  /\ collections' = r.cols
           /\ probe' = [probe EXCEPT !.calls =
                          Append(@, [ret |-> r.ret, created |-> r.created,
                                     listOk |-> listOk, createOk |-> createOk])]
  /\ UNCHANGED <<beliefs, edges, memory, metrics, cache, nextMsg, analysisRuns,
                 started, turn, pg>>

NextEnsure == EnsureCall

SpecEnsure == InitEnsure /\ [][NextEnsure]_vars

(********************** the metrics store on its own ************************)
\* Snapshots written in one behaviour, hours by which the clock advances in
\* one step, and the last hour considered.
MaxSnapshots == 3
TickHours == 12
MaxHours == 36

\* The scalars of the snapshots written directly.
SnapshotValues == {metric_values(2, 1, 1, 0), metric_values(2, 1, 2, 1)}

InitState ==
  InitOn([beliefs |-> <<>>, memory |-> {}, nextMsg |-> 1],
         [kind |-> "state", now |-> 0, last |-> NoOp])

\* log_metrics called with a snapshot of a user under a session; the store
\* stamps the point with its clock.
LogCall ==
  /\ probe.kind = "state"
  /\ Len(metrics) < MaxSnapshots
  /\ \E user \in Users, session \in StateSessions, values \in SnapshotValues,
        dbOk \in BOOLEAN :
       metrics' = log_metrics(metrics, [user |-> user, session |-> session,
                                        values |-> values, timestamp |-> probe.now],
                              dbOk)
  /\ probe' = [probe EXCEPT !.last = [op |-> "log"]]
  /\ UNCHANGED <<beliefs, edges, memory, cache, nextMsg, analysisRuns, started,
                 turn, pg, collections>>

\* consciousness_handler: get_current_state called for a user.
StateCall ==
  /\ probe.kind = "state"
  /\ \E user \in Users, order \in TableOrders, dbOk \in BOOLEAN :
       probe' = [probe EXCEPT !.last =
                   [op |-> "state", user |-> user, dbOk |-> dbOk,
                    ret |-> get_current_state(metrics, user, probe.now, order, dbOk)]]
  /\ UNCHANGED <<beliefs, edges, memory, metrics, cache, nextMsg, analysisRuns,
                 started, turn, pg, collections>>

\* Time passes at the time-series store.
StateTick ==
  /\ probe.kind = "state"
  /\ probe.now + TickHours <= MaxHours
  /\ probe' = [probe EXCEPT !.now = @ + TickHours, !.last = [op |-> "tick"]]
  /\ UNCHANGED <<beliefs, edges, memory, metrics, cache, nextMsg, analysisRuns,
                 started, turn, pg, collections>>

NextState == LogCall \/ StateCall \/ StateTick

SpecState == InitState /\ [][NextState]_vars

(**************************** the analysis cache *****************************)
\* Seconds by which the cache server's clock advances in one step, the last
\* instant considered, and the number of analyses computed in one behaviour.
TickSecs == 1800
MaxClock == 7200
MaxCallClock == 3600
MaxRuns == 2

\* Results handed to set_cached when it is called on its own.
DirectResults(text) ==
  {[id |-> NilId, input_text |-> text, found |-> f] : f \in {Layers, {}}}

\* Texts and layer failures of an analysis that is called on its own; the
\* two texts hash to the same key.
CallTexts == {"m1", "m1c"}
CallLayerFailures == {{}, {"syntactic"}, Layers}

\* What the last write to a key left, judged at time now from the record of
\* writes: nothing, an expired payload, a malformed one or a valid one.
KeyState(puts, now, key) ==
  IF puts[key] = <<>> THEN "absent"
  ELSE IF now >= puts[key][1].at + CACHE_TTL_SECS THEN "expired"
  ELSE IF puts[key][1].writer = "foreign" THEN "malformed"
  ELSE "valid"

\* probe.puts records, per key, the last successful write: who wrote, what
\* and when; probe.last is the most recent call and, where analyze_text is
\* the operation called, probe.prev the one before it.
InitCache ==
  InitOn([beliefs |-> <<>>, memory |-> {}, nextMsg |-> 1],
         [kind |-> "cache", puts |-> [k \in CacheKeys |-> <<>>],
          prev |-> NoOp, last |-> NoOp])

\* What is kept of the call before the last one.
Summary(op) == IF op = NoOp THEN NoOp ELSE [op |-> op.op, text |-> op.text, at |-> op.at, computed |-> op.computed, cached |-> op.computed /\ op.ret.ok /\ op.setOk, ret |-> op.ret]

Logged(op, puts) == [kind |-> probe.kind, puts |-> puts, prev |-> IF probe.kind = "analysis" THEN Summary(probe.last) ELSE NoOp, last |-> op]

\* set_cached called with a result for a text.
CacheSet ==
  /\ probe.kind = "cache"
  /\ \E text \in AnalysisTexts, redisOk \in BOOLEAN :
       \E r \in DirectResults(text) :
         LET w == set_cached(cache, text, r, redisOk)
         IN  /\ cache' = w.cache
             /\ probe' = Logged([op |-> "set", text |-> text, at |-> cache.now,
                                 result |-> r, ret |-> w.ret],
                                IF w.ret.ok
                                  THEN [probe.puts EXCEPT ![cache_key(text)] =
                                          <<[writer |-> "set", result |-> r,
                                             at |-> cache.now]>>]
                                  ELSE probe.puts)
  /\ UNCHANGED <<beliefs, edges, memory, metrics, nextMsg, analysisRuns, started,
                 turn, pg, collections>>

\* get_cached called for a text.
CacheGet ==
  /\ probe.kind = "cache"
  /\ \E text \in AnalysisTexts, redisOk \in BOOLEAN :
       probe' = Logged([op |-> "get", text |-> text, at |-> cache.now,
                        redisOk |-> redisOk,
                        saw |-> KeyState(probe.puts, cache.now, cache_key(text)),
                        ret |-> get_cached(cache, text, redisOk)],
                       probe.puts)
  /\ UNCHANGED <<beliefs, edges, memory, metrics, cache, nextMsg, analysisRuns,
                 started, turn, pg, collections>>

\* Another writer (an earlier release, an operator) leaves a payload under an
\* analysis key that is not a serialized AnalysisResult.
ForeignWrite ==
  /\ probe.kind \in {"cache", "analysis"}
  /\ \E key \in CacheKeys, payload \in MalformedPayloads :
       /\ probe.kind = "analysis" => key \in {cache_key(t) : t \in CallTexts}
       /\ cache' = [cache EXCEPT !.keys[key] =
                      <<[payload |-> payload, expires |-> cache.now + CACHE_TTL_SECS]>>]
       /\ probe' = [probe EXCEPT !.puts[key] =
                      <<[writer |-> "foreign", result |-> payload, at |-> cache.now]>>]
  /\ UNCHANGED <<beliefs, edges, memory, metrics, nextMsg, analysisRuns, started,
                 turn, pg, collections>>

\* analyze_handler: analyze_text called for a text.
AnalyzeCall ==
  /\ probe.kind \in {"analysis", "layers"}
  /\ analysisRuns < MaxRuns
  /\ \E text \in CallTexts, getOk \in BOOLEAN, failed \in SUBSET Layers,
        setOk \in BOOLEAN, pgOk \in BOOLEAN :
       LET a == analyze_text(cache, pg, analysisRuns, text, getOk, failed, setOk, pgOk)
       IN  /\ probe.kind = "analysis" => failed \in CallLayerFailures
           /\ probe.kind = "layers" => text = "m1"
           /\ cache' = a.cache
           /\ pg' = a.pg
           /\ analysisRuns' = a.runs
           /\ probe' = Logged([op |-> "analyze", text |-> text, at |-> cache.now,
                               getOk |-> getOk,
                               saw |-> KeyState(probe.puts, cache.now, cache_key(text)),
                               got |-> a.got,
                               computed |-> a.computed,
                               failed |-> a.failed, setOk |-> setOk,
                               ret |-> a.ret],
                              IF a.computed /\ a.ret.ok /\ setOk
                                THEN [probe.puts EXCEPT ![cache_key(text)] =
                                        <<[writer |-> "set", result |-> a.ret.val[1],
                                           at |-> cache.now]>>]
                                ELSE probe.puts)
  /\ UNCHANGED <<beliefs, edges, memory, metrics, nextMsg, started, turn, collections>>

\* Time passes at the cache server.
Tick ==
  /\ probe.kind \in {"cache", "analysis", "layers"}
  /\ cache.now + TickSecs <= (IF probe.kind = "cache" THEN MaxClock ELSE MaxCallClock)
  /\ cache' = [cache EXCEPT !.now = @ + TickSecs]
  /\ UNCHANGED <<beliefs, edges, memory, metrics, nextMsg, analysisRuns, started,
                 turn, probe, pg, collections>>

NextCache == CacheSet \/ CacheGet \/ ForeignWrite \/ Tick

SpecCache == InitCache /\ [][NextCache]_vars

\* analyze_text called on its own, beside a foreign writer and the clock.
InitAnalysis ==
  InitOn([beliefs |-> <<>>, memory |-> {}, nextMsg |-> 1],
         [kind |-> "analysis", puts |-> [k \in CacheKeys |-> <<>>],
          prev |-> NoOp, last |-> NoOp])

NextAnalysis == AnalyzeCall \/ ForeignWrite \/ Tick

SpecAnalysis == InitAnalysis /\ [][NextAnalysis]_vars

\* analyze_text called on its own with any set of failing layer oracles.
InitLayers ==
  InitOn([beliefs |-> <<>>, memory |-> {}, nextMsg |-> 1],
         [kind |-> "layers", puts |-> [k \in CacheKeys |-> <<>>],
          prev |-> NoOp, last |-> NoOp])

NextLayers == AnalyzeCall \/ Tick

SpecLayers == InitLayers /\ [][NextLayers]_vars

(************************* Analysis-mode turns ******************************)
\* Analysis-mode turns in one behaviour.
MaxAnalysisTurns == 2

\* The summary chat_handler stores and returns, and the content the
\* WebSocket handler returns.
AnalysisSummary == "Analysis complete."
WsAnalysisContent == "Analysis complete"

\* ensure_session: INSERT INTO sessions ... ON CONFLICT (id) DO NOTHING
ensure_session(pgs, session, user, mode, pgOk) ==
  IF ~pgOk THEN [ret |-> Err("database"), pg |-> pgs]
  ELSE IF \E x \in pgs.sessions : x.id = session THEN [ret |-> Ok(<<>>), pg |-> pgs]
  ELSE [ret |-> Ok(<<>>),
        pg |-> [pgs EXCEPT !.sessions = @ \cup {[id |-> session, user |-> user, mode |-> mode]}]]

\* save_message: INSERT INTO messages
save_message(pgs, session, user, role, content, mode, pgOk) ==
  IF pgOk
    THEN [ret |-> Ok(<<>>),
          pg |-> [pgs EXCEPT !.messages =
                    Append(@, [session |-> session, user |-> user, role |-> role,
                               content |-> content, mode |-> mode])]]
    ELSE [ret |-> Err("database"), pg |-> pgs]

\* The four stores an Analysis-mode turn has no business with.
RiverStores == <<beliefs, edges, memory, metrics>>

InitAnalysisTurn ==
  \E prior \in PriorStores :
    InitOn(prior, [kind |-> "aturn", pc |-> "idle", done |-> 0])

\* A request in Analysis mode arrives at chat_handler ("http") or at the
\* WebSocket handler ("ws"), which goes straight to the analysis.
AStart ==
  /\ probe.kind = "aturn" /\ probe.pc \in {"idle", "returned"}
  /\ probe.done < MaxAnalysisTurns
  /\ \E via \in {"http", "ws"}, user \in Users, text \in CallTexts :
       probe' = [kind |-> "aturn", pc |-> IF via = "http" THEN "session" ELSE "analyze",
                 done |-> probe.done, via |-> via, user |-> user, session |-> "s1",
                 text |-> text, start |-> RiverStores, messages |-> pg.messages,
                 chat |-> "none", analysis |-> <<>>, computed |-> FALSE,
                 result |-> "none", response |-> <<>>]
  /\ UNCHANGED <<beliefs, edges, memory, metrics, cache, nextMsg, analysisRuns,
                 started, turn, pg, collections>>

\* The turn ends with an error.
Failed == [probe EXCEPT !.pc = "returned", !.result = "err", !.done = @ + 1]

\* chat_handler: ensure_session(...)?
AEnsureSession ==
  /\ probe.kind = "aturn" /\ probe.pc = "session"
  /\ \E pgOk \in BOOLEAN :
       LET r == ensure_session(pg, probe.session, probe.user, "analysis", pgOk)
       IN  /\ pg' = r.pg
           /\ probe' = IF r.ret.ok THEN [probe EXCEPT !.pc = "saveUser"] ELSE Failed
  /\ UNCHANGED <<beliefs, edges, memory, metrics, cache, nextMsg, analysisRuns,
                 started, turn, collections>>

\* chat_handler: save_message(..., "user", &req.message, ...)?
ASaveUser ==
  /\ probe.kind = "aturn" /\ probe.pc = "saveUser"
  /\ \E pgOk \in BOOLEAN :
       LET r == save_message(pg, probe.session, probe.user, "user", probe.text,
                             "analysis", pgOk)
       IN  /\ pg' = r.pg
           /\ probe' = IF r.ret.ok THEN [probe EXCEPT !.pc = "analyze"] ELSE Failed
  /\ UNCHANGED <<beliefs, edges, memory, metrics, cache, nextMsg, analysisRuns,
                 started, turn, collections>>

\* A faulty analysis step that also stores the message as a memory.
AAnalyzeRemembering ==
  /\ probe.kind = "aturn" /\ probe.pc = "analyze"
  /\ \E getOk \in BOOLEAN, failed \in CallLayerFailures, setOk \in BOOLEAN, pgOk \in BOOLEAN :
       LET a == analyze_text(cache, pg, analysisRuns, probe.text, getOk, failed, setOk, pgOk)
       IN  /\ cache' = a.cache
           /\ pg' = a.pg
           /\ analysisRuns' = a.runs
           /\ memory' = store_memory(memory, probe.user, probe.session, nextMsg,
                                      probe.text, "user", TRUE, TRUE)
           /\ probe' = [probe EXCEPT !.pc = "saveSummary", !.analysis = a.ret.val,
                                      !.computed = a.computed]
  /\ UNCHANGED <<beliefs, edges, metrics, nextMsg, started, turn, collections>>

\* analyze_text(&state, &req.message).await?, and the WebSocket handler's
\* match on the same call, which answers at once.
AAnalyze ==
  /\ probe.kind = "aturn" /\ probe.pc = "analyze"
  /\ \E getOk \in BOOLEAN, failed \in CallLayerFailures, setOk \in BOOLEAN, pgOk \in BOOLEAN :
       LET a == analyze_text(cache, pg, analysisRuns, probe.text, getOk, failed, setOk, pgOk)
       IN  /\ cache' = a.cache
           /\ pg' = a.pg
           /\ analysisRuns' = a.runs
           /\ probe' =
                IF ~a.ret.ok THEN Failed
                ELSE IF probe.via = "ws"
                  THEN [probe EXCEPT !.pc = "returned", !.result = "ok", !.done = @ + 1,
                                     !.analysis = a.ret.val, !.computed = a.computed,
                                     !.response = <<[message |-> WsAnalysisContent,
                                                     analysis |-> a.ret.val]>>]
                ELSE [probe EXCEPT !.pc = "saveSummary", !.analysis = a.ret.val,
                                   !.computed = a.computed]
  /\ UNCHANGED <<beliefs, edges, memory, metrics, nextMsg, started, turn, collections>>

\* chat_handler: save_message(..., "assistant", summary, ...)? and the response.
ASaveSummary ==
  /\ probe.kind = "aturn" /\ probe.pc = "saveSummary"
  /\ \E pgOk \in BOOLEAN :
       LET r == save_message(pg, probe.session, probe.user, "assistant",
                             AnalysisSummary, "analysis", pgOk)
       IN  /\ pg' = r.pg
           /\ probe' =
                IF r.ret.ok
                  THEN [probe EXCEPT !.pc = "returned", !.result = "ok", !.done = @ + 1,
                                     !.response = <<[message |-> AnalysisSummary,
                                                     analysis |-> probe.analysis]>>]
                  ELSE Failed
  /\ UNCHANGED <<beliefs, edges, memory, metrics, cache, nextMsg, analysisRuns,
                 started, turn, collections>>

NextAnalysisTurn == AStart \/ AEnsureSession \/ ASaveUser \/ AAnalyze \/ ASaveSummary

SpecAnalysisTurn == InitAnalysisTurn /\ [][NextAnalysisTurn]_vars

\* compute_metrics called on its own with counts drawn from bounded ranges.
Counts == 0..MaxCount

\* questions_asked also takes the values around the divisor of depth_of_inquiry.
QuestionCounts == Counts \cup {10, 11}

InitMetrics ==
  \E u \in Users, b \in Counts, c \in Counts, q \in QuestionCounts, r \in Counts,
     dbOk \in BOOLEAN :
    InitOn([beliefs |-> <<>>, memory |-> {}, nextMsg |-> 1],
           [kind |-> "metricsCall", user |-> u, b |-> b, c |-> c, q |-> q, r |-> r,
            dbOk |-> dbOk])

MetricsCall ==
  /\ probe.kind = "metricsCall"
  /\ LET m == compute_metrics(metrics, probe.user, "s1", probe.b, probe.c,
                              probe.q, probe.r, probe.dbOk)
     IN  /\ metrics' = m.store
         /\ probe' = [kind |-> "metricsRet", user |-> probe.user, b |-> probe.b,
                      c |-> probe.c, q |-> probe.q, r |-> probe.r,
                      dbOk |-> probe.dbOk, ret |-> m.ret, handed |-> m.handed]
  /\ UNCHANGED <<beliefs, edges, memory, cache, nextMsg, analysisRuns, started, turn, pg, collections>>

NextMetrics == MetricsCall

SpecMetrics == InitMetrics /\ [][NextMetrics]_vars

(************ the oracle's numbers on their way into the graph *************)
\* Values the oracle's JSON may carry in an f64 field, in tenths: one below 0,
\* one inside [0, 1], one above 1.
OracleNumbers == {-3, 5, 12}

\* "claims" arrays whose confidence is any number the oracle may write.
NumberClaims ==
  {<<[claim |-> c, confidence |-> n]>> : c \in ClaimTexts, n \in OracleNumbers}

\* "contradictions" arrays whose severity is any number the oracle may write.
NumberEntries ==
  {<<[existing_claim |-> c, severity |-> n]>> : c \in ClaimTexts, n \in OracleNumbers}

NumberExtractReplies ==
  OracleFailures \cup {[kind |-> "value", val |-> v] : v \in NumberClaims}

NumberDetectReplies ==
  OracleFailures \cup {[kind |-> "value", val |-> v] : v \in NumberEntries}

\* Steps 2 to 4 of process_message for one message of a user, on a persisted
\* graph: extraction, detection, storing and linking, with nothing between the
\* oracle's output and the graph but the code of river::beliefs.
InitNumbers ==
  \E prior \in PriorStores, u \in Users :
    InitOn(prior, [kind |-> "numbers", pc |-> "extract", user |-> u,
                   extracted |-> <<>>, contradictions |-> <<>>, stored |-> <<>>])

NumbersExtract ==
  /\ probe.kind = "numbers" /\ probe.pc = "extract"
  /\ \E reply \in NumberExtractReplies :
       probe' = [probe EXCEPT !.extracted = UnwrapOrDefault(extract_beliefs(reply)),
                              !.pc = "detect"]
  /\ UNCHANGED <<beliefs, edges, memory, metrics, cache, nextMsg, analysisRuns,
                 started, turn, pg, collections>>

NumbersDetect ==
  /\ probe.kind = "numbers" /\ probe.pc = "detect"
  /\ \E dbOk \in BOOLEAN, reply \in NumberDetectReplies :
       LET found == IF probe.extracted = <<>> THEN <<>>
                    ELSE UnwrapOrDefault(
                           detect_contradictions(beliefs, probe.user,
                                                 probe.extracted[1].claim, dbOk,
                                                 reply).ret)
       IN  probe' = [probe EXCEPT !.contradictions = found, !.pc = "store"]
  /\ UNCHANGED <<beliefs, edges, memory, metrics, cache, nextMsg, analysisRuns,
                 started, turn, pg, collections>>

NumbersStore ==
  /\ probe.kind = "numbers" /\ probe.pc = "store"
  /\ \E dbOk \in BOOLEAN :
       LET s == IF probe.extracted = <<>> THEN [ret |-> Ok(<<>>), store |-> beliefs]
                ELSE store_belief(beliefs, probe.user, probe.extracted[1], nextMsg, dbOk)
       IN  /\ beliefs' = s.store
           /\ probe' = [probe EXCEPT !.stored = UnwrapOrDefault(s.ret), !.pc = "link"]
  /\ UNCHANGED <<edges, memory, metrics, cache, nextMsg, analysisRuns, started,
                 turn, pg, collections>>

NumbersLink ==
  /\ probe.kind = "numbers" /\ probe.pc = "link"
  /\ \E dbOk \in BOOLEAN :
       LET at == IF probe.contradictions = <<>> THEN 0
                 ELSE FindClaim(probe.stored, probe.contradictions[1].belief_b.claim)
       IN  edges' = IF at = 0 THEN edges
                    ELSE link_contradiction(beliefs, edges,
                                            probe.contradictions[1].belief_a.id,
                                            probe.stored[at].id,
                                            probe.contradictions[1].severity, dbOk)
  /\ probe' = [probe EXCEPT !.pc = "done"]
  /\ UNCHANGED <<beliefs, memory, metrics, cache, nextMsg, analysisRuns, started,
                 turn, pg, collections>>

NextNumbers == NumbersExtract \/ NumbersDetect \/ NumbersStore \/ NumbersLink

SpecNumbers == InitNumbers /\ [][NextNumbers]_vars

(******************* the memory index and its vectors **********************)
\* Calls of store_memory in a behaviour of the index on its own.
MaxIndexStores == 3

\* Lengths of the vector /api/embed may answer with: the embedding model is a
\* setting of the environment, dimension() is the fixed number 768.
EmbedLengths == {384, EmbeddingDimension}

EmbedReplies ==
  {[kind |-> "unreachable"], [kind |-> "empty"]} \cup
  {[kind |-> "vector", len |-> n] : n \in EmbedLengths}

\* EmbeddingService::embed: the first vector of the response (of which the
\* model keeps the length); Err when the call fails or no vector came back.
embed(reply) == IF reply.kind = "vector" THEN Ok(reply.len) ELSE Err(reply.kind)

\* A vector store that accepts a point of any length.
upsert_points_unchecked(cols, name, len, dbOk) == dbOk /\ \E c \in cols : c.name = name

\* upsert_points at the vector store: refused when the collection is missing
\* or the vector's length is not the collection's dimension.
upsert_points(cols, name, len, dbOk) ==
  dbOk /\ \E c \in cols : c.name = name /\ c.dim = len

\* What the vector store may hold when the server first starts, the episodic
\* collection made with another dimension included.
IndexCollections ==
  PriorCollections \cup {{[name |-> COLLECTION_NAME, dim |-> 384]}}

\* main: ensure_collection(...).await? and then the server serves; probe.vectors
\* holds the length of the vector of every point of the index, by key.
InitIndex ==
  /\ \E cols \in IndexCollections : collections = cols
  /\ beliefs = <<>> /\ edges = <<>> /\ memory = {} /\ metrics = <<>>
  /\ cache = EmptyCache
  /\ pg = [messages |-> <<>>, analyses |-> <<>>, sessions |-> {}]
  /\ nextMsg = 1 /\ analysisRuns = 0 /\ started = 0
  /\ turn = [t \in Slots |-> Idle]
  /\ probe = [kind |-> "index", pc |-> "boot", created |-> FALSE, vectors |-> {},
              refused |-> FALSE]

IndexEnsure ==
  /\ probe.kind = "index" /\ probe.pc = "boot"
  /\ \E listOk \in BOOLEAN, createOk \in BOOLEAN :
       LET r == ensure_collection(collections, listOk, createOk)
       IN  /\ collections' = r.cols
           /\ probe' = [probe EXCEPT !.pc = IF r.ret.ok THEN "serving" ELSE "exited",
                                     !.created = r.created /\ r.ret.ok]
  /\ UNCHANGED <<beliefs, edges, memory, metrics, cache, nextMsg, analysisRuns,
                 started, turn, pg>>

IndexStore ==
  /\ probe.kind = "index" /\ probe.pc = "serving"
  /\ nextMsg <= MaxIndexStores
  /\ \E user \in Users, reply \in EmbedReplies, dbOk \in BOOLEAN :
       LET e == embed(reply)
           up == e.ok /\ upsert_points(collections, COLLECTION_NAME, e.val, dbOk)
       IN  /\ memory' = store_memory(memory, user, "s1", nextMsg, "m1", "user",
                                     e.ok, up)
           /\ probe' = [probe EXCEPT
                          !.vectors = IF up THEN @ \cup {[key |-> nextMsg, len |-> e.val]}
                                      ELSE @,
                          !.refused = @ \/ (e.ok /\ dbOk /\ ~up)]
  /\ nextMsg' = nextMsg + 1
  /\ UNCHANGED <<beliefs, edges, metrics, cache, analysisRuns, started, turn, pg,
                 collections>>

NextIndex == IndexEnsure \/ IndexStore

SpecIndex == InitIndex /\ [][NextIndex]_vars

(***************** two turns of one user at the same time ******************)
\* Two requests of user u1 are served at once, each by its own call of
\* process_message; the first is of session s1, the second of either session.
\* The stores and the capabilities answer every call of these turns that the
\* turn's outcome depends on; the oracle extracts the claim "flat" from both
\* messages.
RaceSlots == {1, 2}

InitRace ==
  \E prior \in PriorStores :
    /\ beliefs = prior.beliefs
    /\ edges = <<>>
    /\ memory = prior.memory
    /\ metrics = <<>>
    /\ cache = EmptyCache
    /\ pg = [messages |-> <<>>, analyses |-> <<>>, sessions |-> {}]
    /\ collections = {[name |-> COLLECTION_NAME, dim |-> EmbeddingDimension]}
    /\ nextMsg = prior.nextMsg
    /\ analysisRuns = 0
    /\ started = 0
    /\ turn = [t \in RaceSlots |-> Idle]
    /\ probe = [kind |-> "race"]

RaceStart(t) ==
  /\ probe.kind = "race"
  /\ turn[t].pc = "idle"
  /\ \E s \in (IF t = 1 THEN {"s1"} ELSE StateSessions) :
       Set(t, [Idle EXCEPT !.pc = "recall", !.mode = "conversation", !.user = "u1",
                           !.session = s, !.msg = "m1", !.message_id = nextMsg])
  /\ nextMsg' = nextMsg + 1
  /\ started' = started + 1
  /\ UNCHANGED <<beliefs, edges, memory, metrics, cache, analysisRuns, probe, pg, collections>>

RaceRecall(t) == Recall(t) /\ turn'[t].recallOk

RaceExtract(t) == Extract(t) /\ turn'[t].extracted = <<Claim("flat")>>

RaceStore(t) == StoreBelief(t) /\ Len(turn'[t].stored) > Len(turn[t].stored)

RaceMemUser(t) == MemUser(t) /\ memory' # memory

RaceList(t) == ListCtx(t) /\ turn'[t].existing = UserBeliefs(beliefs, turn[t].user)

RaceChat(t) == Chat(t) /\ turn'[t].chat = "ok"

RaceMemReply(t) == MemReply(t) /\ memory' # memory

RaceMetrics(t) == Metrics(t) /\ Len(metrics') > Len(metrics)

NextRace ==
  \E t \in RaceSlots :
    \/ RaceStart(t)
    \/ RaceRecall(t)
    \/ RaceExtract(t)
    \/ Detect(t)
    \/ DetectDone(t)
    \/ RaceStore(t)
    \/ StoreDone(t)
    \/ Link(t)
    \/ LinkDone(t)
    \/ RaceMemUser(t)
    \/ RaceList(t)
    \/ RaceChat(t)
    \/ RaceMemReply(t)
    \/ RaceMetrics(t)

SpecRace == InitRace /\ [][NextRace]_vars

(******************* outbound calls and their time limits ******************)
\* The outbound calls of one process_message in program order, for a message
\* with one extracted claim and one detected contradiction: the step of the
\* orchestrator and the service the call goes to.
TurnCalls ==
  <<[step |-> "recall", service |-> "embedding"],
    [step |-> "recall", service |-> "vector"],
    [step |-> "extract", service |-> "oracle"],
    [step |-> "detect", service |-> "graph"],
    [step |-> "detect", service |-> "oracle"],
    [step |-> "store", service |-> "graph"],
    [step |-> "link", service |-> "graph"],
    [step |-> "memUser", service |-> "embedding"],
    [step |-> "memUser", service |-> "vector"],
    [step |-> "listCtx", service |-> "graph"],
    [step |-> "chat", service |-> "oracle"],
    [step |-> "memReply", service |-> "embedding"],
    [step |-> "memReply", service |-> "vector"],
    [step |-> "metrics", service |-> "timeseries"]>>

\* The clients built with whatever their libraries default to.
DefaultClients == {"graph", "vector", "timeseries"}

\* Whether the client of a service gives up on a call that is not answered:
\* OllamaClient::new sets timeout(300 s); EmbeddingService::new takes
\* Client::new(), which sets none; the store clients are as their libraries
\* make them (defaults), which the program does not set.
HasTimeout(service, defaults) ==
  CASE service = "oracle" -> TRUE
    [] service = "embedding" -> FALSE
    [] OTHER -> defaults[service]

\* The position after call k has failed: the rest of its step is skipped; a
\* failed chat ends the turn.
AfterFailure(k) ==
  LET later == {j \in (k + 1)..Len(TurnCalls) : TurnCalls[j].step # TurnCalls[k].step}
  IN  IF later = {} THEN Len(TurnCalls) + 1
      ELSE CHOOSE j \in later : \A i \in later : j <= i

InitCalls ==
  \E defaults \in [DefaultClients -> BOOLEAN] :
    InitOn([beliefs |-> <<>>, memory |-> {}, nextMsg |-> 1],
           [kind |-> "calls", at |-> 1, phase |-> "ready", result |-> "none",
            failed |-> {}, defaults |-> defaults])

\* The turn sends its next request and awaits the answer.
CallIssue ==
  /\ probe.kind = "calls" /\ probe.phase = "ready" /\ probe.result = "none"
  /\ probe.at <= Len(TurnCalls)
  /\ probe' = [probe EXCEPT !.phase = "waiting"]
  /\ UNCHANGED <<beliefs, edges, memory, metrics, cache, nextMsg, analysisRuns,
                 started, turn, pg, collections>>

\* The outcome of the awaited call: Ok moves on, Err skips the rest of the
\* step, and the chat's Err is returned with `?`.
CallOutcome(ok) ==
  IF ok THEN [probe EXCEPT !.at = @ + 1, !.phase = "ready"]
  ELSE IF TurnCalls[probe.at].step = "chat"
    THEN [probe EXCEPT !.phase = "ready", !.result = "err",
                       !.failed = @ \cup {TurnCalls[probe.at].step}]
  ELSE [probe EXCEPT !.at = AfterFailure(probe.at), !.phase = "ready",
                     !.failed = @ \cup {TurnCalls[probe.at].step}]

\* The service answers, with a result or an error; it may also never answer.
CallAnswer ==
  /\ probe.kind = "calls" /\ probe.phase = "waiting"
  /\ \E ok \in BOOLEAN : probe' = CallOutcome(ok)
  /\ UNCHANGED <<beliefs, edges, memory, metrics, cache, nextMsg, analysisRuns,
                 started, turn, pg, collections>>

\* The client's time limit passes: the call ends with an error.
CallTimeout ==
  /\ probe.kind = "calls" /\ probe.phase = "waiting"
  /\ HasTimeout(TurnCalls[probe.at].service, probe.defaults)
  /\ probe' = CallOutcome(FALSE)
  /\ UNCHANGED <<beliefs, edges, memory, metrics, cache, nextMsg, analysisRuns,
                 started, turn, pg, collections>>

\* Ok(response)
CallReturn ==
  /\ probe.kind = "calls" /\ probe.phase = "ready" /\ probe.result = "none"
  /\ probe.at > Len(TurnCalls)
  /\ probe' = [probe EXCEPT !.result = "ok"]
  /\ UNCHANGED <<beliefs, edges, memory, metrics, cache, nextMsg, analysisRuns,
                 started, turn, pg, collections>>

NextCalls == CallIssue \/ CallAnswer \/ CallTimeout \/ CallReturn

SpecCalls == InitCalls /\ [][NextCalls]_vars

\* The runtime keeps polling the turn and the clients' timers run; nothing
\* obliges a service to answer.
SpecCallsLive ==
  SpecCalls /\ WF_vars(CallIssue) /\ WF_vars(CallTimeout) /\ WF_vars(CallReturn)

(****************** the belief summary of a long-standing user **************)
\* The largest number of beliefs the user of the turn holds when it starts.
MaxHeld == 22

\* The graph after earlier turns stored n beliefs of user u1, the k-th with
\* confidence (k % 11) / 10, after one belief of user u2 if `other`: the
\* nodes store_belief creates, one after the other.
HeldMany(n, other) ==
  LET first == IF other THEN Held(<<>>, "u2", "round", 1) ELSE <<>>
  IN  first \o [k \in 1..n |->
                  [id |-> Len(first) + k, user |-> "u1",
                   claim |-> IF k % 2 = 0 THEN "flat" ELSE "round",
                   confidence |-> k % 11, source |-> Len(first) + k,
                   created_at |-> Len(first) + k]]

\* A Conversation turn whose message yielded no claim, about to list the
\* user's beliefs for the reply context (dialogue.rs:98).
InitContext ==
  \E n \in 0..MaxHeld, other \in BOOLEAN :
    InitOn([beliefs |-> HeldMany(n, other), memory |-> {}, nextMsg |-> n + 3],
           [kind |-> "context"])

ContextStart ==
  /\ probe.kind = "context"
  /\ \E t \in Slots : StartConversation(t)

ContextSkip ==
  /\ probe.kind = "context"
  /\ \E t \in Slots :
       /\ turn[t].pc \in {"recall", "extract", "memUser"}
       /\ \/ Recall(t)
          \/ Extract(t) /\ turn'[t].extracted = <<>>
          \/ MemUser(t) /\ memory' = memory

ContextPass ==
  /\ probe.kind = "context"
  /\ \E t \in Slots : DetectDone(t) \/ StoreDone(t) \/ LinkDone(t)

ContextList == probe.kind = "context" /\ \E t \in Slots : ListCtx(t)

ContextChat == probe.kind = "context" /\ \E t \in Slots : Chat(t)

NextContext ==
  ContextStart \/ ContextSkip \/ ContextPass \/ ContextList \/ ContextChat

SpecContext == InitContext /\ [][NextContext]_vars

(************************ the belief-listing endpoint ***********************)
\* The tokens a request may carry: signed with the server's secret or with
\* another one, expired or not, with any user as subject.
Tokens ==
  {[sub |-> u, key |-> k, expired |-> e] :
     u \in Users, k \in {"jwt_secret", "other"}, e \in BOOLEAN}

\* The Authorization header of a request: absent, of another scheme, or
\* "Bearer " followed by a token.
Headers ==
  {[scheme |-> "none"], [scheme |-> "Basic"]} \cup
  {[scheme |-> "Bearer", token |-> tk] : tk \in Tokens}

\* verify_token: decode with the server's secret and the default validation,
\* which checks the signature and the expiry.
verify_token(token) ==
  IF token.key = "jwt_secret" /\ ~token.expired
    THEN Ok(<<[sub |-> token.sub]>>) ELSE Err("jwt")

\* AuthUser::from_request_parts: the header must be there, start with
\* "Bearer " and carry a token that verifies; the rejection is 401.
from_request_parts(header) ==
  IF header.scheme # "Bearer" THEN Err(401)
  ELSE IF ~verify_token(header.token).ok THEN Err(401)
  ELSE Ok(verify_token(header.token).val)

\* A beliefs_handler that serves a user's beliefs to that user only.
beliefs_handler_owner_only(bs, header, user_id, dbOk) == IF ~from_request_parts(header).ok THEN [status |-> 401, body |-> <<>>] ELSE IF from_request_parts(header).val[1].sub # user_id THEN [status |-> 401, body |-> <<>>] ELSE IF dbOk THEN [status |-> 200, body |-> <<[user_id |-> user_id, beliefs |-> UserBeliefs(bs, user_id), total |-> Len(UserBeliefs(bs, user_id))]>>] ELSE [status |-> 500, body |-> <<>>]

\* beliefs_handler: the AuthUser extractor, whose claims are not used, then
\* get_user_beliefs(user_id of the path)? and the response with its total.
beliefs_handler(bs, header, user_id, dbOk) ==
  LET auth == from_request_parts(header)
      listed == get_user_beliefs(bs, user_id, dbOk)
  IN  IF ~auth.ok THEN [status |-> auth.err, body |-> <<>>]
      ELSE IF ~listed.ok THEN [status |-> into_response(listed.err), body |-> <<>>]
      ELSE [status |-> 200,
            body |-> <<[user_id |-> user_id, beliefs |-> listed.val,
                        total |-> Len(listed.val)]>>]

InitEndpoint ==
  \E prior \in PriorStores : InitOn(prior, [kind |-> "endpoint", last |-> NoOp])

\* GET /api/v1/beliefs/{user_id}
BeliefsRequest ==
  /\ probe.kind = "endpoint"
  /\ \E header \in Headers, user_id \in Users, dbOk \in BOOLEAN :
       probe' = [kind |-> "endpoint",
                 last |-> [op |-> "beliefs", header |-> header, user_id |-> user_id,
                           dbOk |-> dbOk,
                           response |-> beliefs_handler(beliefs, header, user_id, dbOk)]]
  /\ UNCHANGED <<beliefs, edges, memory, metrics, cache, nextMsg, analysisRuns,
                 started, turn, pg, collections>>

NextEndpoint == BeliefsRequest

SpecEndpoint == InitEndpoint /\ [][NextEndpoint]_vars

(********************* turns over the WebSocket endpoint ********************)
\* Uuid::nil(), the user id process_ws_message passes to both orchestrators.
NilUser == "00000000-0000-0000-0000-000000000000"

\* The open WebSocket connections; each runs its own handle_socket loop.
Connections == {1, 2}

\* Two connections are open on a server whose stores are empty or hold what
\* two earlier HTTP turns of users u1 and u2 have left.
InitWs ==
  \E prior \in {p \in PriorStores : p.nextMsg # 2} :
    /\ beliefs = prior.beliefs
    /\ edges = <<>>
    /\ memory = prior.memory
    /\ metrics = <<>>
    /\ cache = EmptyCache
    /\ pg = [messages |-> <<>>, analyses |-> <<>>, sessions |-> {}]
    /\ collections = {[name |-> COLLECTION_NAME, dim |-> EmbeddingDimension]}
    /\ nextMsg = prior.nextMsg
    /\ analysisRuns = 0
    /\ started = 0
    /\ turn = [t \in Connections |-> Idle]
    /\ probe = [kind |-> "ws"]

\* A faulty process_ws_message: the user of a turn is derived from the session.
WsStartPerSession(t) ==
  /\ probe.kind = "ws"
  /\ turn[t].pc = "idle"
  /\ turn[t].message_id = NilId
  /\ \E s \in StateSessions, mode \in {"conversation", "integrated"} :
       Set(t, IF mode = "conversation"
                THEN [Idle EXCEPT !.pc = "recall", !.mode = mode, !.user = s,
                                  !.session = s, !.msg = "m1", !.message_id = nextMsg]
                ELSE [Idle EXCEPT !.pc = "join", !.mode = mode, !.user = s,
                                  !.session = s, !.msg = "m1", !.message_id = nextMsg,
                                  !.brA = "pending", !.brR = "pending",
                                  !.brE = "pending"])
  /\ nextMsg' = nextMsg + 1
  /\ started' = started + 1
  /\ UNCHANGED <<beliefs, edges, memory, metrics, cache, analysisRuns, probe, pg, collections>>

\* process_ws_message, Conversation and Integrated arms: the orchestrator is
\* called with the session id of the connection's path and Uuid::nil() as the
\* user.  The session id is chosen by the client, so two connections may
\* name the same session or different ones.
WsStart(t) ==
  /\ probe.kind = "ws"
  /\ turn[t].pc = "idle"
  /\ turn[t].message_id = NilId
  /\ \E s \in StateSessions, mode \in {"conversation", "integrated"} :
       Set(t, IF mode = "conversation"
                THEN [Idle EXCEPT !.pc = "recall", !.mode = mode, !.user = NilUser,
                                  !.session = s, !.msg = "m1", !.message_id = nextMsg]
                ELSE [Idle EXCEPT !.pc = "join", !.mode = mode, !.user = NilUser,
                                  !.session = s, !.msg = "m1", !.message_id = nextMsg,
                                  !.brA = "pending", !.brR = "pending",
                                  !.brE = "pending"])
  /\ nextMsg' = nextMsg + 1
  /\ started' = started + 1
  /\ UNCHANGED <<beliefs, edges, memory, metrics, cache, analysisRuns, probe, pg, collections>>

\* The steps of the turns of the connections.  The stores and the
\* capabilities answer every call whose failure would only end the turn or
\* leave a store as it was; the extraction oracle finds the claim "flat".
WsAnalysis(t) ==
  /\ IAnalysis(t)
  /\ turn'[t].brA = "ok" /\ turn'[t].layerFailed = {}
  /\ cache' # cache /\ pg' # pg

WsRecall(t) == IRecall(t) /\ turn'[t].recallOk

WsExtract(t) == IExtract(t) /\ turn'[t].extracted = <<Claim("flat")>>

WsStore(t) == IStore(t) /\ beliefs' # beliefs

WsMemUser(t) == IMemUser(t) /\ memory' # memory

WsChat(t) == IChat(t) /\ turn'[t].chat = "ok"

WsMemReply(t) == IMemReply(t) /\ memory' # memory

WsList(t) == IList(t) /\ turn'[t].existing = UserBeliefs(beliefs, turn[t].user)

WsMetrics(t) == IMetrics(t) /\ Len(metrics') > Len(metrics)

NextWs ==
  \E t \in Connections :
    \/ WsStart(t)
    \/ RaceRecall(t)
    \/ RaceExtract(t)
    \/ Detect(t)
    \/ DetectDone(t)
    \/ RaceStore(t)
    \/ StoreDone(t)
    \/ Link(t)
    \/ LinkDone(t)
    \/ RaceMemUser(t)
    \/ RaceList(t)
    \/ RaceChat(t)
    \/ RaceMemReply(t)
    \/ RaceMetrics(t)
    \/ WsAnalysis(t)
    \/ WsRecall(t)
    \/ WsExtract(t)
    \/ IJoin(t)
    \/ IDetect(t)
    \/ IDetectDone(t)
    \/ WsStore(t)
    \/ IStoreDone(t)
    \/ WsMemUser(t)
    \/ WsChat(t)
    \/ WsMemReply(t)
    \/ WsList(t)
    \/ WsMetrics(t)

SpecWs == InitWs /\ [][NextWs]_vars

(***************************** properties **********************************)
\* The beliefs stored for a user, as a set.
HeldBy(user) == {beliefs[k] : k \in {j \in 1..Len(beliefs) : beliefs[j].user = user}}

\* C1: a turn of either mode that has returned carries a reply exactly when
\* its chat call succeeded and an error exactly when its chat call failed;
\* nothing else ends a turn, and a turn whose chat call failed has returned
\* without a reply.
C1_ReplyIffChatSucceeds ==
  \A t \in Slots :
    /\ turn[t].pc = "returned" =>
         /\ turn[t].result \in {"ok", "err"}
         /\ turn[t].result = "ok" <=> turn[t].chat = "ok"
         /\ turn[t].result = "err" <=> turn[t].chat = "err"
    /\ turn[t].pc # "returned" => turn[t].result = "none"
    /\ turn[t].chat = "err" => turn[t].pc = "returned"

\* A Conversation turn returns its reply although recall and extraction
\* failed, no memory could be written and the metrics were not logged.
C1_Witness ==
  \E t \in Slots :
    /\ turn[t].mode = "conversation"
    /\ turn[t].pc = "returned"
    /\ turn[t].result = "ok"
    /\ ~turn[t].recallOk
    /\ ~turn[t].extractRet.ok
    /\ memory = {}
    /\ metrics = <<>>

\* C2: in an Integrated turn the join is left only with all three branches
\* completed successfully; a branch whose call failed contributes its default
\* (no memories, no claims, no layer output of the failed layers), and the
\* turn carries no result before its chat call has been made.
C2_JoinCollectsAll ==
  \A t \in Slots :
    turn[t].mode = "integrated" =>
      /\ turn[t].pc # "join" =>
           turn[t].brA = "ok" /\ turn[t].brR = "ok" /\ turn[t].brE = "ok"
      /\ turn[t].brR \in {"pending", "ok"}
      /\ turn[t].brE \in {"pending", "ok"}
      /\ turn[t].brA \in {"pending", "ok"}
      /\ ~turn[t].recallOk => turn[t].memories = <<>>
      /\ ~turn[t].extractRet.ok => turn[t].extracted = <<>>
      /\ turn[t].brA = "ok" =>
           /\ Len(turn[t].analysis) = 1
           /\ turn[t].layerFailed \cap turn[t].analysis[1].found = {}
      /\ turn[t].chat = "none" => turn[t].result = "none"

\* An Integrated turn reaches its chat call after recall failed, extraction
\* failed and every layer of the analysis lost its oracle call.
C2_Witness ==
  \E t \in Slots :
    /\ turn[t].mode = "integrated"
    /\ turn[t].pc = "chat"
    /\ ~turn[t].recallOk
    /\ ~turn[t].extractRet.ok
    /\ turn[t].layerFailed = Layers
    /\ turn[t].analysis[1].found = {}

\* C3: both ends of every CONTRADICTS edge are ids of stored beliefs, and a
\* call of link_contradiction with an end that is not the id of a stored
\* belief has created no edge.
C3_NoDanglingEdge ==
  /\ \A k \in 1..Len(edges) :
       /\ \E j \in 1..Len(beliefs) : beliefs[j].id = edges[k].a
       /\ \E j \in 1..Len(beliefs) : beliefs[j].id = edges[k].b
  /\ probe.kind = "link" => ~probe.created

\* A turn has linked a contradiction and a later call with an unknown end
\* has been made.
C3_Witness ==
  /\ probe.kind = "link"
  /\ Len(edges) > 0

\* C4 as stated: no belief the turn itself stored (its source is the turn's
\* message id) is among the contradictions' stored sides or in the listing the
\* Conversation turn builds its reply context from.
C4_ReadsSeeTurnStart ==
  \A t \in Slots :
    /\ \A k \in 1..Len(turn[t].contradictions) :
         turn[t].contradictions[k].belief_a.source # turn[t].message_id
    /\ turn[t].mode = "conversation" =>
         \A k \in 1..Len(turn[t].existing) :
           turn[t].existing[k].source # turn[t].message_id

Answered == IF probe.reply.kind = "value" THEN probe.reply.val ELSE <<>>

\* C5: when the listing of the user's beliefs is empty, detect_contradictions
\* returns the empty sequence and has not called the oracle, whatever the claim.
C5_EmptyListNoOracle ==
  (probe.kind = "detectRet" /\ probe.dbOk /\ UserBeliefs(beliefs, probe.user) = <<>>)
    => /\ probe.ret = Ok(<<>>)
       /\ ~probe.called

\* The user holds nothing while another user does, and the oracle had entries
\* to give.
C5_Witness ==
  /\ probe.kind = "detectRet"
  /\ probe.dbOk
  /\ UserBeliefs(beliefs, probe.user) = <<>>
  /\ beliefs # <<>>
  /\ Answered # <<>>
  /\ probe.ret = Ok(<<>>)

\* C6: every returned Contradiction has as belief_a a belief stored for the
\* user whose claim is literally the existing_claim of an oracle entry, and
\* there is exactly one Contradiction per oracle entry whose existing_claim is
\* the claim of a stored belief of the user: the other entries yield none.
C6_LiteralMatchOnly ==
  (probe.kind = "detectRet" /\ probe.ret.ok) =>
    LET out == probe.ret.val
        matching == {k \in 1..Len(Answered) :
                       \E b \in HeldBy(probe.user) :
                         b.claim = Answered[k].existing_claim}
    IN  /\ \A k \in 1..Len(out) :
             /\ out[k].belief_a \in HeldBy(probe.user)
             /\ \E j \in matching :
                  out[k].belief_a.claim = Answered[j].existing_claim
        /\ Len(out) = Cardinality(matching)

\* The oracle names a paraphrase and the stored claim "flat": exactly one
\* Contradiction comes back, on the stored belief "flat".
C6_Witness ==
  /\ probe.kind = "detectRet"
  /\ probe.ret.ok
  /\ Len(Answered) = 2
  /\ Answered[1].existing_claim = "paraphrase"
  /\ Len(probe.ret.val) = 1
  /\ probe.ret.val[1].belief_a.claim = "flat"

\* C8: for a user with a stored belief, a failed or unparseable answer of the
\* oracle makes detect_contradictions return the empty sequence, not an error.
C8_OracleFailureIsEmpty ==
  (/\ probe.kind = "detectRet"
   /\ probe.dbOk
   /\ UserBeliefs(beliefs, probe.user) # <<>>
   /\ probe.reply.kind # "value")
    => /\ probe.called
       /\ probe.ret = Ok(<<>>)

\* The user holds a belief and the oracle's answer did not parse.
C8_Witness ==
  /\ probe.kind = "detectRet"
  /\ probe.dbOk
  /\ UserBeliefs(beliefs, probe.user) # <<>>
  /\ probe.reply.kind = "malformed"
  /\ probe.called
  /\ probe.ret.ok

\* The scalar x = <<n, d>> lies in [0, 1].
InUnit(x) == x[2] > 0 /\ 0 <= x[1] /\ x[1] <= x[2]

\* The scalar x = <<n, d>> is the number min(1, p / q), for q > 0.
IsMinOne(x, p, q) ==
  IF p >= q THEN x[1] = x[2] /\ x[2] > 0 ELSE x[2] > 0 /\ x[1] * q = p * x[2]

AllInUnit(v) ==
  /\ InUnit(v.epistemic_humility)
  /\ InUnit(v.belief_volatility)
  /\ InUnit(v.contradiction_awareness)
  /\ InUnit(v.depth_of_inquiry)

\* C9: the four scalars of the snapshot compute_metrics hands to the metrics
\* store lie in [0, 1] for all counts, and so does every stored snapshot.
C9_ScalarsInUnitInterval ==
  /\ probe.kind = "metricsRet" => AllInUnit(probe.handed.values)
  /\ \A k \in 1..Len(metrics) : AllInUnit(metrics[k].values)

\* One belief, more contradictions, questions and revisions than beliefs: the
\* clamps of humility, volatility and depth act and awareness takes its default.
C9_Witness ==
  /\ probe.kind = "metricsRet"
  /\ probe.b = 1 /\ probe.c = MaxCount /\ probe.q = 11 /\ probe.r = MaxCount
  /\ Len(metrics) = 1
  /\ metrics[1].values.epistemic_humility = <<1, 1>>
  /\ metrics[1].values.depth_of_inquiry = <<1, 1>>

\* C10: the scalars of compute_metrics are those of the reference formulas:
\* humility min(1,(q+r)/b) for b > 0, else 1/2; volatility min(1,r/b) for
\* b > 0, else 0; awareness min(1,c/(b-1)) for b > 1, else 0; depth
\* min(1,q/10); for (b,c,q,r) = (5,2,1,0) they are 1/5, 0, 1/2 and 1/10, and a
\* successful call returns the snapshot with these scalars.
C10_ReferenceFormulas ==
  probe.kind = "metricsRet" =>
    LET v == probe.handed.values
        b == probe.b
        c == probe.c
        q == probe.q
        r == probe.r
    IN  /\ IF b > 0 THEN IsMinOne(v.epistemic_humility, q + r, b)
                    ELSE v.epistemic_humility = <<1, 2>>
        /\ IF b > 0 THEN IsMinOne(v.belief_volatility, r, b)
                    ELSE v.belief_volatility = <<0, 1>>
        /\ IF b > 1 THEN IsMinOne(v.contradiction_awareness, c, b - 1)
                    ELSE v.contradiction_awareness = <<0, 1>>
        /\ IsMinOne(v.depth_of_inquiry, q, 10)
        /\ (b = 5 /\ c = 2 /\ q = 1 /\ r = 0) =>
             /\ v.contradiction_awareness = <<1, 2>>
             /\ v.epistemic_humility = <<1, 5>>
             /\ v.belief_volatility = <<0, 1>>
             /\ v.depth_of_inquiry = <<1, 10>>
        /\ probe.ret.ok => probe.ret.val[1].values = v

\* Scenario C has been computed and returned.
C10_Witness ==
  /\ probe.kind = "metricsRet"
  /\ probe.b = 5 /\ probe.c = 2 /\ probe.q = 1 /\ probe.r = 0
  /\ probe.ret.ok
  /\ probe.ret.val[1].values.contradiction_awareness = <<1, 2>>

\* C11 as stated: compute_metrics returns the snapshot it computed whether or
\* not the write to the metrics store succeeded.
C11_SnapshotReturnedRegardless ==
  probe.kind = "metricsRet" =>
    /\ probe.ret.ok
    /\ probe.ret.val = <<probe.handed>>

\* C12: a get_cached that follows a successful set_cached of the same key,
\* with the store reachable and before the entry's 3600 seconds are over,
\* returns exactly the result that was set; once 3600 seconds have passed
\* since the last put under the key, get_cached returns a miss.
C12_CacheRoundTrip ==
  (probe.kind = "cache" /\ probe.last.op = "get"
     /\ probe.puts[cache_key(probe.last.text)] # <<>>) =>
    LET put == probe.puts[cache_key(probe.last.text)][1]
    IN  /\ (put.writer = "set" /\ probe.last.redisOk
             /\ probe.last.at < put.at + CACHE_TTL_SECS) =>
              probe.last.ret = Ok(<<put.result>>)
        /\ probe.last.at >= put.at + CACHE_TTL_SECS => probe.last.ret = Ok(<<>>)

\* A get_cached right after a set_cached of a result with all four layers
\* returns that result.
C12_Witness ==
  /\ probe.kind = "cache" /\ probe.last.op = "get" /\ probe.last.redisOk
  /\ probe.puts[cache_key(probe.last.text)] # <<>>
  /\ LET put == probe.puts[cache_key(probe.last.text)][1]
     IN  /\ put.writer = "set" /\ put.at = probe.last.at
         /\ put.result.input_text = probe.last.text
         /\ put.result.found = Layers
         /\ probe.last.ret = Ok(<<put.result>>)

\* A get_cached 3600 seconds after the set_cached of its text misses.
C12_ExpiredWitness ==
  /\ probe.kind = "cache" /\ probe.last.op = "get" /\ probe.last.redisOk
  /\ probe.puts[cache_key(probe.last.text)] # <<>>
  /\ LET put == probe.puts[cache_key(probe.last.text)][1]
     IN  /\ put.writer = "set" /\ probe.last.at = put.at + CACHE_TTL_SECS
         /\ probe.last.ret = Ok(<<>>)

\* The cache could not give analyze_text a result: the store was unreachable
\* or the payload under the key was malformed.
CacheErrored(op) == op.op = "analyze" /\ (~op.getOk \/ op.saw = "malformed")

SameTextTwice ==
  /\ probe.kind = "analysis"
  /\ probe.prev.op = "analyze" /\ probe.last.op = "analyze"
  /\ probe.prev.text = probe.last.text
  /\ probe.prev.computed
  /\ probe.last.at < probe.prev.at + CACHE_TTL_SECS
  /\ probe.last.saw # "malformed"

\* C14 as stated: of two analyses of the same text within the TTL only the
\* first computes the four layers, and the second returns the first one's
\* result, id and layers included.
C14_SecondCallIsCached ==
  SameTextTwice => (~probe.last.computed /\ probe.last.ret = probe.prev.ret)

\* C14 amended: the same, provided the first call's best-effort cache write
\* succeeded and the second call's cache read reached the store.
C14_SecondCallIsCachedWhenCacheWorks ==
  (SameTextTwice /\ probe.prev.cached /\ probe.last.getOk) =>
    (~probe.last.computed /\ probe.last.ret = probe.prev.ret)

\* A second analysis, 1800 seconds after the first, returned the first one's
\* result without computing.
C14_Witness ==
  /\ SameTextTwice /\ probe.prev.cached /\ probe.last.getOk
  /\ probe.last.at > probe.prev.at
  /\ ~probe.last.computed
  /\ probe.last.ret = probe.prev.ret
  /\ probe.last.ret.val[1].id = 1
  /\ analysisRuns = 1

\* The ids of the analyses persisted in the relational store.
Persisted == {pg.analyses[i] : i \in 1..Len(pg.analyses)}

\* C15: an analyze_text that misses the cache returns a result for its
\* text whatever fails: the result holds the oracle-derived findings of
\* exactly the layers whose oracle call succeeded, and a failed cache write
\* or a failed persistence does not turn the call into an error.
C15_MissAlwaysReturnsAResult ==
  (probe.kind = "layers" /\ probe.last.op = "analyze" /\ probe.last.computed) =>
    /\ probe.last.ret.ok
    /\ probe.last.ret.val[1].input_text = probe.last.text
    /\ probe.last.ret.val[1].found = Layers \ probe.last.failed

\* An analysis whose semantic oracle call failed, whose result was neither
\* cached nor persisted, returned the findings of the other three layers.
C15_Witness ==
  /\ probe.kind = "layers" /\ probe.last.op = "analyze" /\ probe.last.computed
  /\ probe.last.failed = {"semantic"}
  /\ ~probe.last.setOk
  /\ probe.last.ret.ok
  /\ probe.last.ret.val[1].id \notin Persisted
  /\ probe.last.ret.val[1].found = Layers \ {"semantic"}

\* Belief b was stored after belief a.
StoredAfter(b, a) ==
  \E i, j \in 1..Len(beliefs) : beliefs[i] = a /\ beliefs[j] = b /\ i < j

\* C16: right after a successful store_belief the user's list holds the new
\* belief, with the claim and confidence given, at its head; every list
\* get_user_beliefs returns holds exactly the user's beliefs, each stored
\* after the one that follows it; and no two nodes of the graph share an id,
\* whatever their claims.
C16_StoredBeliefIsListedNewestFirst ==
  probe.kind = "beliefs" =>
    /\ (probe.last.op = "store" /\ probe.last.ret.ok) =>
         LET listed == get_user_beliefs(beliefs, probe.last.user, TRUE).val
         IN  /\ listed # <<>>
             /\ listed[1] = probe.last.ret.val[1]
             /\ listed[1].claim = probe.last.claim.claim
             /\ listed[1].confidence = probe.last.claim.confidence
    /\ (probe.last.op = "list" /\ probe.last.ret.ok) =>
         LET listed == probe.last.ret.val
         IN  /\ {listed[i] : i \in 1..Len(listed)} = HeldBy(probe.last.user)
             /\ Len(listed) = Cardinality(HeldBy(probe.last.user))
             /\ \A i, j \in 1..Len(listed) : i < j => StoredAfter(listed[i], listed[j])
    /\ \A i, j \in 1..Len(beliefs) : i # j => beliefs[i].id # beliefs[j].id

\* A user's list of three beliefs, two of which have the same claim, the
\* newest two created within the same second.
C16_Witness ==
  /\ probe.kind = "beliefs" /\ probe.last.op = "list" /\ probe.last.ret.ok
  /\ Len(probe.last.ret.val) = 3
  /\ probe.last.ret.val[1].claim = probe.last.ret.val[3].claim
  /\ probe.last.ret.val[1].id # probe.last.ret.val[3].id
  /\ InstantOf(probe.last.ret.val[1].created_at).sec
       = InstantOf(probe.last.ret.val[2].created_at).sec

\* Entry r of a recall result is the projection of a memory stored for user.
RecalledFrom(r, user, query) ==
  \E e \in memory :
    /\ e.user = user
    /\ r = [content |-> e.content, role |-> e.role, timestamp |-> e.timestamp,
            score |-> Score(query, e.content)]

\* C17: a successful recall_similar returns at most limit entries, each the
\* projection of a memory stored for the user asked about, in descending
\* order of score; a failed one leaves the orchestrator with no memories.
C17_RecallBoundedScopedOrdered ==
  (probe.kind = "recall" /\ probe.last.op = "recall") =>
    LET r == probe.last.ret.val
    IN  /\ probe.last.ret.ok =>
             /\ Len(r) <= probe.last.limit
             /\ \A i \in 1..Len(r) : RecalledFrom(r[i], probe.last.user, probe.last.query)
             /\ \A i, j \in 1..Len(r) : i < j => r[i].score >= r[j].score
             /\ probe.last.memories = r
        /\ ~probe.last.ret.ok => probe.last.memories = <<>>

\* A recall with limit 2 for a user with three memories, beside a memory of
\* another user, returned two entries, the better one first.
C17_Witness ==
  /\ probe.kind = "recall" /\ probe.last.op = "recall" /\ probe.last.ret.ok
  /\ probe.last.limit = 2
  /\ Cardinality({e \in memory : e.user = probe.last.user}) = 3
  /\ \E e \in memory : e.user # probe.last.user
  /\ Len(probe.last.ret.val) = 2
  /\ probe.last.ret.val[1].score > probe.last.ret.val[2].score

\* A recall that failed left the orchestrator with no memories although the
\* user has some.
C17_FailureWitness ==
  /\ probe.kind = "recall" /\ probe.last.op = "recall" /\ ~probe.last.ret.ok
  /\ \E e \in memory : e.user = probe.last.user
  /\ probe.last.memories = <<>>

\* The episodic collections of the vector store.
Episodic == {c \in collections : c.name = COLLECTION_NAME}

\* C18: a call of ensure_collection that follows a successful one issues no
\* create and succeeds whenever the store answers its listing, and after a
\* successful call the store holds exactly one episodic collection.
C18_EnsureCollectionIdempotent ==
  probe.kind = "ensure" =>
    \A i \in 1..Len(probe.calls) :
      probe.calls[i].ret.ok =>
        /\ Cardinality(Episodic) = 1
        /\ \A j \in (i + 1)..Len(probe.calls) :
             /\ ~probe.calls[j].created
             /\ probe.calls[j].listOk => probe.calls[j].ret.ok

\* Two successful calls on a store that had no episodic collection: the
\* first created it, the second did not.
C18_Witness ==
  /\ probe.kind = "ensure" /\ Len(probe.calls) = 2
  /\ probe.calls[1].ret.ok /\ probe.calls[1].created
  /\ probe.calls[2].ret.ok /\ ~probe.calls[2].created
  /\ Episodic = {[name |-> COLLECTION_NAME, dim |-> EmbeddingDimension]}

\* The scalars of the user's most recent snapshot within the window, the
\* default when there is none.
MostRecent(user) ==
  LET mine == InWindow(metrics, user, probe.now)
  IN  IF mine = {} THEN DefaultState
      ELSE metrics[CHOOSE x \in mine : \A y \in mine : y <= x].values

\* C19 as stated: get_current_state returns the scalars of the user's most
\* recent snapshot of the last 24 hours, under whatever sessions the
\* snapshots were written, and the default when there is none or the query
\* fails.
C19_StateIsMostRecentSnapshot ==
  (probe.kind = "state" /\ probe.last.op = "state") =>
    /\ probe.last.ret.ok
    /\ probe.last.ret.val[1].values =
         IF probe.last.dbOk THEN MostRecent(probe.last.user) ELSE DefaultState

\* The same, for users all of whose snapshots in the window are of one session.
C19_StateOfOneSession ==
  (probe.kind = "state" /\ probe.last.op = "state"
     /\ \A j, k \in InWindow(metrics, probe.last.user, probe.now) :
          metrics[j].session = metrics[k].session) =>
    /\ probe.last.ret.ok
    /\ probe.last.ret.val[1].values =
         IF probe.last.dbOk THEN MostRecent(probe.last.user) ELSE DefaultState

\* A state read for a user with two snapshots of one session in the window
\* and one that has left it returned the newest.
C19_OneSessionWitness ==
  /\ probe.kind = "state" /\ probe.last.op = "state" /\ probe.last.dbOk
  /\ Cardinality(InWindow(metrics, probe.last.user, probe.now)) = 2
  /\ \E k \in 1..Len(metrics) :
       metrics[k].user = probe.last.user /\ k \notin InWindow(metrics, probe.last.user, probe.now)
  /\ \A j, k \in InWindow(metrics, probe.last.user, probe.now) :
       metrics[j].session = metrics[k].session
  /\ probe.last.ret.val[1].values = MostRecent(probe.last.user)
  /\ probe.last.ret.val[1].values # DefaultState

C21_StoredNumbersInRange ==
  /\ \A k \in 1..Len(beliefs) : beliefs[k].confidence \in 0..10
  /\ \A k \in 1..Len(edges) : edges[k].severity \in 0..10

\* The same for the beliefs alone, and for the edges alone.
C21_ConfidenceInRange == \A k \in 1..Len(beliefs) : beliefs[k].confidence \in 0..10

C21_SeverityInRange == \A k \in 1..Len(edges) : edges[k].severity \in 0..10

\* The dimension of the episodic collection, if the vector store has one.
IndexDimensions == {c.dim : c \in {d \in collections : d.name = COLLECTION_NAME}}

C22_FoundWitness ==
  /\ probe.kind = "index" /\ ~probe.created
  /\ \E v \in probe.vectors : v.len # EmbeddingDimension

\* Both turns of the race have returned.
RaceDone == probe.kind = "race" /\ \A t \in RaceSlots : turn[t].pc = "returned"

\* The scalars of the snapshot turn t hands to the metrics store.
SnapshotOf(t) ==
  metric_values(Len(turn[t].existing) + Len(turn[t].stored),
                Len(turn[t].contradictions), 1, 0)

\* What get_current_state reports for u1 once both snapshots are written.
CurrentState(order) ==
  get_current_state(metrics, "u1", Len(metrics), order, TRUE).val[1].values

\* C23: two turns of one user that run at the same time and extract the
\* same claim text both store it, so that the graph holds two belief nodes of
\* the user with that text, one per turn; each turn appends its own metrics
\* snapshot, and the snapshot written later is the one reported as current:
\* for turns of one session always, for turns of two sessions when the store
\* returns the later session's series last.
C23_TurnsNotIsolated ==
  RaceDone =>
    /\ \A t \in RaceSlots :
         /\ Len(turn[t].stored) = 1
         /\ turn[t].stored[1].claim = "flat"
         /\ turn[t].stored[1].source = turn[t].message_id
         /\ turn[t].stored[1] \in HeldBy("u1")
    /\ turn[1].stored[1].id # turn[2].stored[1].id
    /\ Cardinality({b \in HeldBy("u1") :
                      /\ b.claim = "flat"
                      /\ b.source \in {turn[t].message_id : t \in RaceSlots}}) = 2
    /\ Len(metrics) = 2
    /\ \E a \in RaceSlots, b \in RaceSlots :
         /\ a # b
         /\ metrics[1].session = turn[a].session /\ metrics[1].values = SnapshotOf(a)
         /\ metrics[2].session = turn[b].session /\ metrics[2].values = SnapshotOf(b)
    /\ turn[1].session = turn[2].session =>
         \A order \in TableOrders : CurrentState(order) = metrics[2].values
    /\ \E order \in TableOrders : CurrentState(order) = metrics[2].values

\* The turns overlap: turn 1 listed the user's beliefs before turn 2 stored
\* its own, turn 2 wrote its snapshot before turn 1 did, the two snapshots
\* differ, and the one of turn 1 is reported as current.
C23_Witness ==
  /\ RaceDone
  /\ turn[1].session = turn[2].session
  /\ turn[2].stored[1] \notin {turn[1].existing[k] : k \in 1..Len(turn[1].existing)}
  /\ turn[1].stored[1] \in {turn[2].existing[k] : k \in 1..Len(turn[2].existing)}
  /\ metrics[1].values # metrics[2].values
  /\ metrics[2].values = SnapshotOf(1)
  /\ \A order \in TableOrders : CurrentState(order) = SnapshotOf(1)
  /\ Cardinality({b \in HeldBy("u1") : b.claim = "flat"}) >= 2

\* Turns of two sessions: with the earlier session's series returned last,
\* the snapshot written earlier is the one reported.
C23_OtherSessionWitness ==
  /\ RaceDone
  /\ turn[1].session # turn[2].session
  /\ metrics[1].values # metrics[2].values
  /\ \E order \in TableOrders : CurrentState(order) = metrics[1].values

\* C24: every turn eventually completes, with a reply or a failure, even if
\* an external store or capability never answers.
C24_EveryTurnCompletes == <>(probe.result # "none")

\* A call to the oracle always ends, answered or not.
C24_OracleCallsEnd ==
  (probe.phase = "waiting" /\ TurnCalls[probe.at].service = "oracle")
    ~> (probe.phase = "ready")

\* When also the store clients have time limits, a turn whose embedding
\* calls are answered completes.
C24_WaitsOnlyWithoutLimit ==
  [](probe.result = "none" =>
       <>(\/ probe.result # "none"
          \/ /\ probe.phase = "waiting"
             /\ ~HasTimeout(TurnCalls[probe.at].service, probe.defaults)))

\* C25: when the final chat call of a Conversation or Integrated turn fails,
\* the response the HTTP client gets has status 503.
C25_ChatFailureIs503 ==
  \A t \in Slots :
    (turn[t].pc = "returned" /\ turn[t].chat = "err") =>
      into_response(turn[t].error) = 503

\* What the client gets instead: every turn that ends in an error, the chat's
\* included, is answered with status 500.
C25_TurnFailureIs500 ==
  \A t \in Slots :
    (turn[t].pc = "returned" /\ turn[t].result = "err") =>
      /\ turn[t].error \in ErrorTypes
      /\ into_response(turn[t].error) = 500

\* The positions of the calls named op in the trace of turn t.
TraceAt(t, op) == {k \in 1..Len(turn[t].trace) : turn[t].trace[k] = op}

\* The beliefs in the graph that turn t has written.
WrittenBy(t) ==
  {beliefs[k] : k \in {j \in 1..Len(beliefs) : beliefs[j].source = turn[t].message_id}}

\* C26: in a Conversation-mode turn the three phases are strictly ordered:
\* every detection has completed before the first belief of the turn is
\* stored, and every store has completed before the first link is attempted;
\* so no contradiction detected in a turn has a belief stored by that same
\* turn as its existing endpoint.
C26_DetectThenStoreThenLink ==
  \A t \in Slots :
    turn[t].mode = "conversation" =>
      /\ \A d \in TraceAt(t, "detect"), s \in TraceAt(t, "store") : d < s
      /\ \A s \in TraceAt(t, "store"), l \in TraceAt(t, "link") : s < l
      /\ turn[t].pc \in {"recall", "extract", "detect"} =>
           turn[t].stored = <<>> /\ WrittenBy(t) = {}
      /\ TraceAt(t, "store") # {} =>
           Cardinality(TraceAt(t, "detect")) = Len(turn[t].extracted)
      /\ turn[t].pc \in {"recall", "extract", "detect", "store"} =>
           /\ turn[t].links = <<>>
           /\ \A e \in 1..Len(edges), b \in WrittenBy(t) :
                edges[e].a # b.id /\ edges[e].b # b.id
      /\ TraceAt(t, "link") # {} =>
           Cardinality(TraceAt(t, "store")) = Len(turn[t].extracted)
      /\ \A k \in 1..Len(turn[t].contradictions) :
           /\ turn[t].contradictions[k].belief_a \notin WrittenBy(t)
           /\ \A j \in 1..Len(turn[t].stored) :
                turn[t].contradictions[k].belief_a.id # turn[t].stored[j].id

\* A turn that extracted two claims, stored both and linked a contradiction
\* whose existing endpoint carries the text of a claim this turn stored too.
C26_Witness ==
  \E t \in Slots :
    /\ turn[t].mode = "conversation" /\ turn[t].pc = "returned"
    /\ Len(turn[t].stored) = 2
    /\ \E k \in 1..Len(turn[t].links) : turn[t].links[k].created
    /\ \E k \in 1..Len(turn[t].contradictions), j \in 1..Len(turn[t].stored) :
         turn[t].contradictions[k].belief_a.claim = turn[t].stored[j].claim

\* The contradictions of turn t that the link loop has passed.
Passed(t) ==
  IF turn[t].pc = "link" THEN 1..(turn[t].i - 1)
  ELSE IF turn[t].pc \in {"memUser", "listCtx", "chat", "memReply", "metrics", "returned"}
    THEN 1..Len(turn[t].contradictions)
  ELSE {}

\* The beliefs turn t stored whose claim is literally c.
StoredAs(t, c) ==
  {turn[t].stored[j] : j \in {i \in 1..Len(turn[t].stored) : turn[t].stored[i].claim = c}}

\* C27: in Conversation mode a link is attempted for a detected contradiction
\* exactly when a belief whose claim text equals the contradiction's new claim
\* was stored in this turn; the endpoints of the attempt are the pre-existing
\* belief's id and the newly stored belief's id; a contradiction whose new
\* belief failed to store produces no edge.
C27_LinkIffNewBeliefStored ==
  \A t \in Slots :
    turn[t].mode = "conversation" =>
      /\ Len(turn[t].links) =
           Cardinality({k \in Passed(t) :
                          StoredAs(t, turn[t].contradictions[k].belief_b.claim) # {}})
      /\ \A n \in 1..Len(turn[t].links) :
           \E k \in Passed(t) :
             /\ turn[t].links[n].a = turn[t].contradictions[k].belief_a.id
             /\ turn[t].links[n].severity = turn[t].contradictions[k].severity
             /\ turn[t].contradictions[k].belief_a \notin WrittenBy(t)
             /\ \E b \in StoredAs(t, turn[t].contradictions[k].belief_b.claim) :
                  /\ turn[t].links[n].b = b.id
                  /\ b \in WrittenBy(t)
      /\ {edges[k] : k \in {e \in 1..Len(edges) :
                               \E b \in WrittenBy(t) : edges[e].b = b.id}} =
           {[a |-> turn[t].links[n].a, b |-> turn[t].links[n].b,
             severity |-> turn[t].links[n].severity] :
              n \in {m \in 1..Len(turn[t].links) : turn[t].links[m].created}}
      /\ \A k \in 1..Len(turn[t].contradictions) :
           StoredAs(t, turn[t].contradictions[k].belief_b.claim) = {} =>
             \A e \in 1..Len(edges), b \in WrittenBy(t) :
               (edges[e].a = turn[t].contradictions[k].belief_a.id /\ edges[e].b = b.id)
                 => b.claim # turn[t].contradictions[k].belief_b.claim

\* Two contradictions were detected; the new belief of one failed to store
\* and no link was attempted for it, the other was linked.
C27_Witness ==
  \E t \in Slots :
    /\ turn[t].mode = "conversation" /\ turn[t].pc = "returned"
    /\ Len(turn[t].contradictions) = 2
    /\ Len(turn[t].stored) = 1
    /\ Len(turn[t].links) = 1 /\ turn[t].links[1].created
    /\ Len(edges) = 1
    /\ \E k \in 1..2 : StoredAs(t, turn[t].contradictions[k].belief_b.claim) = {}

\* The memory entries of role `role` that carry user and session of turn t.
EntriesOf(t, role) ==
  {e \in memory : e.user = turn[t].user /\ e.session = turn[t].session /\ e.role = role}

\* What a turn whose chat call failed has left: the beliefs it stored and the
\* edges it created are in the graph, the write of the user's message has
\* been issued, neither the reply's memory write nor the metrics append has,
\* and the index holds no assistant entry newer than the turn's message.
AfterFailedChat(t) ==
  /\ turn[t].pc = "returned" /\ turn[t].result = "err"
  /\ \A j \in 1..Len(turn[t].stored) : turn[t].stored[j] \in WrittenBy(t)
  /\ \A n \in 1..Len(turn[t].links) :
       turn[t].links[n].created =>
         \E k \in 1..Len(edges) :
           edges[k].a = turn[t].links[n].a /\ edges[k].b = turn[t].links[n].b
  /\ TraceAt(t, "memUser") # {}
  /\ TraceAt(t, "memReply") = {} /\ TraceAt(t, "metrics") = {}
  /\ \A e \in EntriesOf(t, "assistant") : e.key < turn[t].message_id
  /\ turn[t].counts = <<>>

C28_IntegratedWitness ==
  \E t \in Slots :
    /\ turn[t].mode = "integrated" /\ turn[t].chat = "err"
    /\ AfterFailedChat(t)
    /\ WrittenBy(t) # {}
    /\ \E e \in EntriesOf(t, "user") : e.key = turn[t].message_id

\* C29: in Conversation mode the beliefsCount handed to the metric calculator
\* is the number of beliefs the user held before this turn's stores plus the
\* number newly stored, i.e. the user's total belief count after the turn;
\* contradictionsCount is the number of detected contradictions,
\* questionsAsked is 1 and beliefsRevised is 0.
C29_BeliefsCountIsTotal ==
  \A t \in Slots :
    (turn[t].mode = "conversation" /\ turn[t].counts # <<>>) =>
      /\ turn[t].counts[1] =
           (Cardinality(HeldBy(turn[t].user)) - Cardinality(WrittenBy(t)))
             + Len(turn[t].stored)
      /\ turn[t].counts[1] = Cardinality(HeldBy(turn[t].user))
      /\ turn[t].counts[2] = Len(turn[t].contradictions)
      /\ turn[t].counts[3] = 1
      /\ turn[t].counts[4] = 0

\* What is handed over: the beliefs stored by the turn are counted twice when
\* the listing after the stores succeeds, and are the whole count when it
\* fails; the other three arguments are as stated.
C29_CountsAsComputed ==
  \A t \in Slots :
    (turn[t].mode = "conversation" /\ turn[t].counts # <<>>) =>
      /\ turn[t].counts[1] \in
           {Cardinality(HeldBy(turn[t].user)) + Len(turn[t].stored),
            Len(turn[t].stored)}
      /\ turn[t].counts[2] = Len(turn[t].contradictions)
      /\ turn[t].counts[3] = 1
      /\ turn[t].counts[4] = 0

\* A turn that stored one belief for a user who held none hands over 2.
C29_DoubleCountWitness ==
  \E t \in Slots :
    /\ turn[t].mode = "conversation" /\ turn[t].counts # <<>>
    /\ Cardinality(HeldBy(turn[t].user)) = 1 /\ Len(turn[t].stored) = 1
    /\ turn[t].counts[1] = 2

\* The system prompt a turn in the state of record r hands to chat.
PromptOf(r) == IF r.mode = "conversation" THEN SystemPrompt(r) ELSE IntegratedPrompt(r)

C30_IntegratedWitness ==
  \E t \in Slots :
    /\ turn[t].mode = "integrated" /\ turn[t].pc = "returned" /\ turn[t].chat = "err"
    /\ Len(turn[t].asked) = 1
    /\ turn[t].asked[1][1].content.analysis_insights # <<>>

\* The summary the code's listing calls for: at most the first twenty rows of
\* the newest-first list, each as claim and confidence.
SummaryOf(list) ==
  [k \in 1..(IF Len(list) <= 20 THEN Len(list) ELSE 20) |->
     [claim |-> list[k].claim, confidence |-> list[k].confidence]]

\* C31: the belief summary in the system prompt of a Conversation-mode chat
\* call has at most 20 lines; it is the first 20 beliefs of the list the turn
\* read, line by line with claim and confidence; that list is the user's
\* newest-first belief list or, when the listing failed, empty; and the
\* summary is omitted when the list is empty.
C31_SummaryIsFirstTwenty ==
  \A t \in Slots :
    (turn[t].mode = "conversation" /\ turn[t].asked # <<>>) =>
      LET ctx == turn[t].asked[1][1].content.beliefs_context
          newest == UserBeliefs(beliefs, turn[t].user)
      IN  /\ Len(ctx) <= 20
          /\ turn[t].existing \in {newest, <<>>}
          /\ ctx = SummaryOf(turn[t].existing)
          /\ turn[t].existing = <<>> => ctx = <<>>
          /\ \A k \in 1..Len(ctx) : \A j \in 1..Len(newest) :
               (k < j /\ turn[t].existing # <<>>) =>
                 newest[k].created_at > newest[j].created_at

\* A user with more than twenty beliefs was asked about: the summary has
\* exactly twenty lines and leaves the oldest beliefs out.
C31_Witness ==
  \E t \in Slots :
    /\ turn[t].mode = "conversation" /\ turn[t].asked # <<>>
    /\ Len(UserBeliefs(beliefs, turn[t].user)) > 20
    /\ Len(turn[t].asked[1][1].content.beliefs_context) = 20

\* The listing failed for a user who holds beliefs: no summary in the prompt.
C31_FailedListingWitness ==
  \E t \in Slots :
    /\ turn[t].mode = "conversation" /\ turn[t].asked # <<>>
    /\ UserBeliefs(beliefs, turn[t].user) # <<>>
    /\ turn[t].asked[1][1].content.beliefs_context = <<>>

\* The pairs (source, target) of the CONTRADICTS edges, and what can be
\* reached along them in at most n + 1 steps.
EdgePairs == {<<edges[k].a, edges[k].b>> : k \in 1..Len(edges)}

RECURSIVE Paths(_, _)
Paths(R, n) ==
  IF n = 0 THEN R
  ELSE LET S == Paths(R, n - 1)
       IN  S \cup {<<pq[1][1], pq[2][2]>> : pq \in {x \in S \X R : x[1][2] = x[2][1]}}

\* The step creates an edge, and it is this one.
Creates(e) == Len(edges') = Len(edges) + 1 /\ edges'[Len(edges')] = e

\* C32: every CONTRADICTS edge goes from a belief of the graph to a belief
\* created strictly later, so the relation has no self-loop and no cycle; and
\* a step that creates an edge is a link step of a turn whose target is a
\* belief that turn stored and whose source is a belief the turn did not
\* store, so two beliefs that exist before a turn are never linked by it.
C32_EdgesPointForward ==
  /\ [](/\ \A k \in 1..Len(edges) :
             /\ edges[k].a \in 1..Len(beliefs) /\ edges[k].b \in 1..Len(beliefs)
             /\ beliefs[edges[k].a].created_at < beliefs[edges[k].b].created_at
             /\ edges[k].a # edges[k].b
        /\ \A p \in Paths(EdgePairs, Len(beliefs)) : p[1] # p[2])
  /\ [][Len(edges') > Len(edges) =>
          \E t \in DOMAIN turn :
            /\ turn[t].pc = "link"
            /\ Creates(edges'[Len(edges')])
            /\ \E k \in 1..Len(turn[t].stored) :
                 /\ turn[t].stored[k].id = edges'[Len(edges')].b
                 /\ beliefs[edges'[Len(edges')].b].source = turn[t].message_id
            /\ \A k \in 1..Len(turn[t].stored) :
                 turn[t].stored[k].id # edges'[Len(edges')].a
            /\ beliefs[edges'[Len(edges')].a].source # turn[t].message_id]_vars

\* Two turns of one user ran at once and one of them linked its new belief to
\* the belief the other had just stored.
C32_Witness ==
  \E k \in 1..Len(edges) : \E t \in DOMAIN turn :
    /\ turn[t].message_id # NilId
    /\ beliefs[edges[k].a].source = turn[t].message_id
    /\ \E r \in DOMAIN turn :
         r # t /\ turn[r].message_id # NilId
               /\ beliefs[edges[k].b].source = turn[r].message_id

\* An edge from a belief of an earlier turn to a belief of this one.
C32_SequentialWitness ==
  \E k \in 1..Len(edges) : \E t \in DOMAIN turn :
    /\ beliefs[edges[k].b].source = turn[t].message_id
    /\ beliefs[edges[k].a].source < turn[t].message_id

\* C33: no step taken while an Integrated-mode turn is running changes the
\* set of CONTRADICTS edges, the turn issues no link_contradiction call, and
\* the contradictions it detected are what it puts in the reply context and
\* counts for the metrics.
C33_IntegratedNeverLinks ==
  /\ [][\A t \in Slots :
          (turn[t].mode = "integrated" \/ turn'[t].mode = "integrated") =>
            edges' = edges]_vars
  /\ [](\A t \in Slots :
          turn[t].mode = "integrated" =>
            /\ turn[t].links = <<>>
            /\ \A k \in 1..Len(turn[t].trace) : turn[t].trace[k] # "link"
            /\ \A k \in 1..Len(turn[t].asked) :
                 turn[t].asked[k][1].content.contradiction_context
                   = turn[t].contradictions
            /\ turn[t].counts # <<>> =>
                 turn[t].counts[2] = Len(turn[t].contradictions))

\* An Integrated turn detected a contradiction, stored the new belief, got
\* its reply and logged its metrics: the graph holds the new belief and the
\* belief it contradicts, and no edge touches the new belief.
C33_Witness ==
  \E t \in Slots :
    /\ turn[t].mode = "integrated" /\ turn[t].pc = "returned"
    /\ turn[t].result = "ok"
    /\ turn[t].contradictions # <<>>
    /\ turn[t].counts # <<>> /\ turn[t].counts[2] > 0
    /\ \E k \in 1..Len(beliefs) :
         /\ beliefs[k].source = turn[t].message_id
         /\ beliefs[k].claim = turn[t].contradictions[1].belief_b.claim
         /\ \A j \in 1..Len(edges) : edges[j].b # k /\ edges[j].a # k

\* The last successful write to the key of the last analysed text, as long as
\* no foreign writer has replaced it.
PutFor(op) == probe.puts[cache_key(op.text)]

\* C34 as stated: when the analysis of a text computed a result with a layer
\* degraded, every analysis of that text within the TTL returns that result
\* without computing.
C34_DegradedResultIsServed ==
  (SameTextTwice /\ probe.prev.ret.val[1].found # Layers) =>
    (~probe.last.computed /\ probe.last.ret = probe.prev.ret)

\* C34 amended: an analysis that computes writes its result under the key of
\* its text whether or not layers degraded, with the TTL, if the cache write
\* reaches the store; and an analysis whose cache read reaches the store and
\* finds the result of such a write younger than the TTL returns that result,
\* degraded or not, without computing.
C34_DegradedResultsAreCached ==
  (probe.kind = "analysis" /\ probe.last.op = "analyze"
     /\ PutFor(probe.last) # <<>> /\ PutFor(probe.last)[1].writer = "set") =>
    LET put == PutFor(probe.last)[1]
        held == cache.keys[cache_key(probe.last.text)]
    IN  /\ (probe.last.computed /\ probe.last.setOk) =>
             /\ put.result = probe.last.ret.val[1]
             /\ put.result.found = Layers \ probe.last.failed
             /\ held = <<[payload |-> ToJson(put.result),
                          expires |-> probe.last.at + CACHE_TTL_SECS]>>
             /\ FromJson(held[1].payload) = Ok(<<put.result>>)
        /\ (probe.last.getOk /\ probe.last.saw = "valid") =>
             /\ ~probe.last.computed
             /\ probe.last.at < put.at + CACHE_TTL_SECS
             /\ probe.last.ret = Ok(<<put.result>>)

\* An analysis, 1800 seconds after one whose oracle calls all failed, got the
\* result without oracle-derived findings from the cache.
C34_Witness ==
  /\ probe.kind = "analysis" /\ probe.last.op = "analyze"
  /\ probe.last.getOk /\ probe.last.saw = "valid"
  /\ PutFor(probe.last) # <<>> /\ PutFor(probe.last)[1].writer = "set"
  /\ PutFor(probe.last)[1].result.found = {}
  /\ PutFor(probe.last)[1].result.input_text = probe.last.text
  /\ probe.last.at > PutFor(probe.last)[1].at
  /\ ~probe.last.computed
  /\ probe.last.ret.val[1].found = {}

\* An analysis with a failed layer computed and its result is in the cache.
C34_WrittenWitness ==
  /\ probe.kind = "analysis" /\ probe.last.op = "analyze"
  /\ probe.last.computed /\ probe.last.setOk /\ probe.last.failed # {}
  /\ cache.keys[cache_key(probe.last.text)] # <<>>
  /\ FromJson(cache.keys[cache_key(probe.last.text)][1].payload)
       = Ok(probe.last.ret.val)

\* C35: a get_cached that hits returns a result whose input_text is the text
\* asked for, whichever texts were put into the cache before, texts with
\* the same 64-bit hash included.
C35_HitIsForItsText ==
  (probe.kind = "cache" /\ probe.last.op = "get"
     /\ probe.last.ret.ok /\ probe.last.ret.val # <<>>) =>
    probe.last.ret.val[1].input_text = probe.last.text

\* What holds instead: the result a hit returns was put under the key of the
\* text asked for, that is, for a text with the same hash.
C35_HitIsForItsKey ==
  (probe.kind = "cache" /\ probe.last.op = "get"
     /\ probe.last.ret.ok /\ probe.last.ret.val # <<>>) =>
    cache_key(probe.last.ret.val[1].input_text) = cache_key(probe.last.text)

\* The same through analyze_text: an analysis returned the result computed
\* for another text.
C35_AnalysisOfAnotherText ==
  /\ probe.kind = "analysis" /\ probe.last.op = "analyze"
  /\ probe.last.ret.ok /\ ~probe.last.computed
  /\ probe.last.ret.val[1].input_text # probe.last.text

\* The step is the call named op of turn t: it appends op to the turn's trace.
Issues(t, op) == turn'[t].trace = Append(turn[t].trace, op)

\* C36: every belief a turn stores carries the turn's message id as its
\* source; the turn's user-message memory entry is keyed by that id and its
\* reply entry by another, fresh key; a turn issues at most one memory write
\* of each kind, each write adds an entry under a key the index did not hold,
\* and no step removes or replaces an entry.
C36_OneIdPerTurnAndFreshKeys ==
  /\ [](\A t \in Slots :
          /\ \A j \in 1..Len(turn[t].stored) :
               turn[t].stored[j].source = turn[t].message_id
          /\ Cardinality(TraceAt(t, "memUser")) <= 1
          /\ Cardinality(TraceAt(t, "memReply")) <= 1
          /\ \A e \in memory :
               e.key = turn[t].message_id =>
                 /\ e.role = "user" /\ e.content = turn[t].msg
                 /\ e.user = turn[t].user /\ e.session = turn[t].session
          /\ \A e \in memory, f \in memory : e.key = f.key => e = f)
  /\ [][\A t \in Slots :
          /\ Len(beliefs') > Len(beliefs) =>
               /\ Issues(t, "store")
               /\ SubSeq(beliefs', 1, Len(beliefs)) = beliefs
               /\ Len(beliefs') = Len(beliefs) + 1
               /\ beliefs'[Len(beliefs')].source = turn[t].message_id
          /\ memory' # memory =>
               \E e \in memory' :
                 /\ memory' = memory \cup {e}
                 /\ \A f \in memory : f.key # e.key
                 /\ \/ /\ Issues(t, "memUser")
                       /\ e.key = turn[t].message_id /\ e.role = "user"
                    \/ /\ Issues(t, "memReply")
                       /\ e.key # turn[t].message_id /\ e.role = "assistant"
                       /\ \A k \in 1..Len(beliefs) : beliefs[k].source # e.key]_vars

\* A turn stored two beliefs and both memory entries: the beliefs share the
\* turn's message id, the user entry is keyed by it and the reply entry by
\* another key, next to an entry an earlier turn wrote.
C36_Witness ==
  \E t \in Slots :
    /\ turn[t].pc = "returned" /\ turn[t].result = "ok"
    /\ Len(turn[t].stored) = 2
    /\ turn[t].stored[1].source = turn[t].stored[2].source
    /\ \E e \in memory, f \in memory, g \in memory :
         /\ e.key = turn[t].message_id /\ e.role = "user"
         /\ f.key > turn[t].message_id /\ f.role = "assistant"
         /\ g.key < turn[t].message_id

\* The same for an Integrated turn, whose beliefs are read back from the graph.
C36_IntegratedWitness ==
  \E t \in Slots :
    /\ turn[t].mode = "integrated" /\ turn[t].pc = "returned"
    /\ Cardinality(WrittenBy(t)) = 2
    /\ \E e \in memory, f \in memory :
         /\ e.key = turn[t].message_id /\ e.role = "user"
         /\ f.key > turn[t].message_id /\ f.role = "assistant"

\* C37: every step that appends a metrics snapshot is the metrics step of a
\* Conversation or Integrated turn that passes questionsAsked = 1 and
\* beliefsRevised = 0, and the snapshot has depth_of_inquiry 1/10,
\* belief_volatility 0 and epistemic_humility min(1, 1/beliefsCount) for a
\* positive beliefsCount, 1/2 for beliefsCount = 0.
C37_TurnSnapshotsAreFixed ==
  [][Len(metrics') > Len(metrics) =>
       \E t \in Slots :
         /\ Issues(t, "metrics")
         /\ turn[t].mode \in {"conversation", "integrated"}
         /\ Len(metrics') = Len(metrics) + 1
         /\ turn'[t].counts[3] = 1 /\ turn'[t].counts[4] = 0
         /\ LET s == metrics'[Len(metrics')]
                b == turn'[t].counts[1]
            IN  /\ s.user = turn[t].user /\ s.session = turn[t].session
                /\ s.values.depth_of_inquiry = <<1, 10>>
                /\ s.values.belief_volatility = <<0, 1>>
                /\ s.values.epistemic_humility =
                     (IF b = 0 THEN <<1, 2>> ELSE <<1, b>>)
                /\ s.values.epistemic_humility[1] <= s.values.epistemic_humility[2]]_vars

\* A Conversation turn that counted three beliefs and a contradiction
\* appended a snapshot with humility 1/3.
C37_Witness ==
  \E t \in Slots :
    /\ turn[t].mode = "conversation" /\ turn[t].pc = "returned"
    /\ turn[t].counts # <<>> /\ turn[t].counts[1] = 3 /\ turn[t].counts[2] > 0
    /\ metrics # <<>>
    /\ metrics[Len(metrics)].values.epistemic_humility = <<1, 3>>
    /\ metrics[Len(metrics)].values.depth_of_inquiry = <<1, 10>>

\* An Integrated turn whose belief listing failed appended a snapshot with
\* the default humility 1/2.
C37_ZeroWitness ==
  \E t \in Slots :
    /\ turn[t].mode = "integrated" /\ turn[t].pc = "returned"
    /\ turn[t].counts # <<>> /\ turn[t].counts[1] = 0
    /\ metrics # <<>>
    /\ metrics[Len(metrics)].values.epistemic_humility = <<1, 2>>

\* The header of a caller who is authenticated as user u.
BearerOf(u) == [scheme |-> "Bearer", token |-> [sub |-> u, key |-> "jwt_secret", expired |-> FALSE]]

\* C38: the belief-listing endpoint answers an authenticated caller with the
\* beliefs of the user id of the path, newest first, with their number,
\* whoever the caller is: two authenticated callers get the same answer for
\* the same path, and the answer to a caller is the one the owner gets.
C38_AnyCallerReadsAnyUser ==
  /\ \A caller \in Users, other \in Users, user_id \in Users, dbOk \in BOOLEAN :
       beliefs_handler(beliefs, BearerOf(caller), user_id, dbOk)
         = beliefs_handler(beliefs, BearerOf(other), user_id, dbOk)
  /\ (probe.kind = "endpoint" /\ probe.last.op = "beliefs"
        /\ probe.last.header \in {BearerOf(u) : u \in Users}) =>
       /\ probe.last.response.status = (IF probe.last.dbOk THEN 200 ELSE 500)
       /\ probe.last.dbOk =>
            probe.last.response.body =
              <<[user_id |-> probe.last.user_id,
                 beliefs |-> UserBeliefs(beliefs, probe.last.user_id),
                 total |-> Len(UserBeliefs(beliefs, probe.last.user_id))]>>

\* A caller authenticated as u2 asked for the beliefs of u1 and got them.
C38_Witness ==
  /\ probe.kind = "endpoint" /\ probe.last.op = "beliefs"
  /\ probe.last.header = BearerOf("u2") /\ probe.last.user_id = "u1"
  /\ probe.last.response.status = 200
  /\ probe.last.response.body[1].total > 0
  /\ \A k \in 1..probe.last.response.body[1].total :
       probe.last.response.body[1].beliefs[k].user = "u1"

\* A request without a valid token is answered 401 and gets no belief.
C38_UnauthenticatedWitness ==
  /\ probe.kind = "endpoint" /\ probe.last.op = "beliefs"
  /\ probe.last.header.scheme = "Bearer" /\ probe.last.header.token.expired
  /\ probe.last.response = [status |-> 401, body |-> <<>>]

\* The memory entries whose key is the message id of the turn of connection r.
SaidBy(r) == {e \in memory : e.key = turn[r].message_id}

\* C39: every Conversation or Integrated turn of a WebSocket connection runs
\* as the nil user, whatever the connection and the session; the beliefs,
\* memory entries and snapshots it writes belong to the nil user; so what the
\* turn of one connection has written is in the belief list that the
\* contradiction detection of every other connection's turn reads and in the
\* memory scope its recall searches.
C39_WsTurnsShareTheNilUser ==
  \A t \in DOMAIN turn :
    turn[t].message_id # NilId =>
      /\ turn[t].user = NilUser
      /\ \A b \in WrittenBy(t) : b.user = NilUser
      /\ \A e \in SaidBy(t) : e.user = NilUser
      /\ \A k \in 1..Len(metrics) : metrics[k].user = NilUser
      /\ \A r \in DOMAIN turn :
           (r # t /\ turn[r].message_id # NilId) =>
             /\ \A b \in WrittenBy(r) :
                  \E k \in 1..Len(UserBeliefs(beliefs, turn[t].user)) :
                    UserBeliefs(beliefs, turn[t].user)[k] = b
             /\ \A e \in SaidBy(r) :
                  e \in {m \in memory : m.user = turn[t].user}
             /\ \A k \in 1..Len(turn[t].contradictions) :
                  turn[t].contradictions[k].belief_a.user = turn[r].user

\* The turn of one connection, under session s2, detected a contradiction
\* with the belief that the turn of the other connection, under session s1,
\* had stored, and linked its own belief to it.
C39_Witness ==
  \E t \in DOMAIN turn, r \in DOMAIN turn :
    /\ t # r
    /\ turn[t].session = "s2" /\ turn[r].session = "s1"
    /\ turn[t].mode = "conversation"
    /\ \E k \in 1..Len(turn[t].contradictions) :
         turn[t].contradictions[k].belief_a \in WrittenBy(r)
    /\ \E k \in 1..Len(edges) :
         /\ beliefs[edges[k].a] \in WrittenBy(r)
         /\ beliefs[edges[k].b] \in WrittenBy(t)

\* The recall of one connection's turn returned the message the other
\* connection's turn had stored under another session.
C39_RecallWitness ==
  \E t \in DOMAIN turn, r \in DOMAIN turn :
    /\ t # r /\ turn[t].session # turn[r].session
    /\ turn[t].message_id # NilId /\ turn[r].message_id # NilId
    /\ \E e \in SaidBy(r) : \E k \in 1..Len(turn[t].memories) :
         /\ turn[t].memories[k].timestamp = e.timestamp
         /\ turn[t].memories[k].content = e.content
====
